---- MODULE Spec2Model ----
\* Model of the incremental analysis pipeline of react-codebase-guru:
\*   IncrementalAnalyzer (src/src/performance/incrementalAnalyzer.ts) and
\*   FileWatcher         (src/src/watcher/fileWatcher.ts).
\* Every await of the TypeScript code is a step boundary: the code between two
\* awaits runs to completion on the single event-loop thread and is one action.
EXTENDS Integers, Sequences, FiniteSets, TLC

\* ------------------------------------------------------------------ bounds
\* number of file-system mutations (write, touch, delete) in one behaviour
MaxEdits == 2
\* number of analyzeChangedFiles calls in one behaviour
MaxCalls == 2
\* length of the path list handed to one analyzeChangedFiles call
MaxBatchLen == 2
\* mtime values are 0..MaxMtime (only equality of mtimes is ever observed)
MaxMtime == 1

\* ------------------------------------------------------------------ inputs
ComponentPaths == {"a.tsx", "b.tsx"}
UnsupportedPaths == {"n.md"}
Paths == ComponentPaths \cup UnsupportedPaths

\* File contents are numbered; 0 is "no such file".  What a content parses to
\* is fixed by the content (the extractors are functions of the bytes).
Absent == 0
Contents == 1..3
ContentsOf(p) == IF p \in ComponentPaths THEN Contents ELSE {1}

\* ------------------------------------------------------------------ maps
\* A JavaScript Map is a function whose DOMAIN is the key set.
EmptyMap == [x \in {} |-> 0]
MapHas(m, k) == k \in DOMAIN m
MapSet(m, k, v) == [x \in (DOMAIN m) \cup {k} |-> IF x = k THEN v ELSE m[x]]
MapDelete(m, k) == [x \in (DOMAIN m) \ {k} |-> m[x]]

\* ------------------------------------------------------------------ state
VARIABLES
  disk,             \* path -> content number now on disk (Absent: no file)
  mtime,            \* path -> modification time on disk
  edits,            \* file-system mutations so far
  fileHashes,       \* Map<string, FileHash>
  analysisCache,    \* Map<string, CachedAnalysis>
  dependencyGraph,  \* Map<string, Set<string>>: dependency -> dependents
  call,             \* the analyzeChangedFiles invocation in progress
  ncalls            \* analyzeChangedFiles invocations so far

cacheVars == <<disk, mtime, edits, fileHashes, analysisCache, dependencyGraph, call, ncalls>>

\* ------------------------------------------------------------------ state of the FileWatcher
VARIABLES
  isWatching,       \* FileWatcher.isWatching
  watcher,          \* this.watcher: "none" | "open" | "closing"
  debounceTimers,   \* armed timers, as the paths in the order the timers expire
  pendingChanges,   \* Set<string>
  batch,            \* batch number -> the processPendingChanges invocation
  nbatches,         \* batches taken so far
  stopPc,           \* position of each stopWatching invocation: "idle" | "closing" | "saving"
  nevents,          \* raw events so far
  nsessions,        \* startWatching invocations so far
  burst,            \* history: path -> state of its current burst of raw events
  handed,           \* history: path -> times handed to analysis in that burst
  session           \* this.session; startTime is kept as the number of the start

watchVars == <<isWatching, watcher, debounceTimers, pendingChanges, batch, nbatches,
               stopPc, nevents, nsessions, burst, handed, session>>

\* ------------------------------------------------------------------ state of the DriftAnalyzer
VARIABLES
  rules,            \* config.rules: rule type -> 'error' | 'warning' | 'off'
  patterns,         \* this.patterns is set (learned patterns) or null
  analysis,         \* the ProjectAnalysis handed to analyzeForDrift
  driftResult,      \* what the last analyzeForDrift call did
  scoredFiles,      \* calculateComplianceScore: total files of its analysis
  scoredViolations, \* calculateComplianceScore: its list of violations
  score             \* calculateComplianceScore: the score it returned

driftVars == <<rules, patterns, analysis, driftResult, scoredFiles, scoredViolations, score>>

\* ------------------------------------------------------------------ state of the AnalysisStream
VARIABLES
  options,          \* this.options: the constructor's defaults overlaid with its argument
  isStreaming,      \* AnalysisStream.isStreaming
  updateTimer,      \* this.updateTimer is set (the report interval is armed)
  eventCounter,     \* this.eventCounter
  eventHistory,     \* this.eventHistory: StreamEvent[]
  metricsHistory,   \* this.metricsHistory: StreamMetrics[]
  currentMetrics,   \* this.currentMetrics
  listeners,        \* what the 'stream-started' listener does: "none" | "stop"
  emitted,          \* history: event name -> times emit(name) ran
  now,              \* Date.now() in minutes
  streamCalls,      \* calls of the stream's methods so far
  processed,        \* history: the metrics of each result the stream took in, in call order
  lastStreamCall    \* history: the last call of a method of the stream

streamVars == <<options, isStreaming, updateTimer, eventCounter, eventHistory, metricsHistory,
                currentMetrics, listeners, emitted, now, streamCalls, processed,
                lastStreamCall>>

\* ------------------------------------------------------------------ state of the persisted cache
VARIABLES
  cacheFile,        \* .codebase-guru/analysis-cache.json: NoFile, PartialFile or the document
  clock,            \* Date.now() in days
  persistCalls,     \* saveCache, loadCache, clearCache and validateCache calls so far
  persistPc,        \* the one of these calls in progress, and its position
  lastSaved,        \* history: what the last saveCache wrote, and from which maps
  lastLoad          \* history: how the last loadCache ended, and whether it changed the maps

persistVars == <<cacheFile, clock, persistCalls, persistPc, lastSaved, lastLoad>>

\* ------------------------------------------------------------------ state of overlapping analyzeChangedFiles calls
VARIABLES
  inflight,         \* invocation -> the analyzeChangedFiles call it is, and its position
  latestRead        \* history: path -> the content calculateFileHash read last

overlapVars == <<inflight, latestRead>>

\* ------------------------------------------------------------------ state of an analyzer of a dependency chain
VARIABLES
  chain             \* fileHashes, analysisCache, dependencyGraph and the position of the call

chainVars == <<chain>>

\* ------------------------------------------------------------------ state of the FileWatcher's start and patterns
VARIABLES
  starts,           \* startWatching invocation -> its position
  leakedWatchers,   \* chokidar watchers that are open and that this.watcher no longer holds
  thisPatterns,     \* FileWatcher.patterns
  analyzerPatterns, \* the patterns held by this.driftAnalyzer
  storedPatterns    \* the patterns in the file of the PatternStorage

startVars == <<starts, leakedWatchers, thisPatterns, analyzerPatterns, storedPatterns>>

\* ------------------------------------------------------------------ state of the PatternExtractor's input
VARIABLES
  extracted         \* the spacing strings of the styles, and the SpacingGrid learned from them

learnVars == <<extracted>>

vars == <<cacheVars, watchVars, driftVars, streamVars, persistVars,
          overlapVars, chainVars, startVars, learnVars>>

\* ------------------------------------------------------------------ extractors
\* crypto.createHash('sha256').update(content).digest('hex'): a function of the
\* bytes alone, distinct for distinct contents; never the content number itself.
Sha256(c) == 1000 + 37 * c

\* calculateFileHash: hash of the bytes, timestamp is the mtime from fs.stat
calculateFileHash(p, c, mt) == [filePath |-> p, hash |-> Sha256(c), timestamp |-> mt]

\* What the bytes of a component file at p parse to: content 1 is a component
\* without imports, content 2 a component that imports the other component
\* files, content 3 does not parse.  A file that vanished before the parser
\* opened it gives file-not-found (fs.stat inside safeParseFile).
ParseOutcome(p, c) ==
  CASE c = Absent -> [success |-> FALSE, errorType |-> "file-not-found", dependencies |-> {}]
    [] c = 1 -> [success |-> TRUE, errorType |-> "none", dependencies |-> {}]
    [] c = 2 -> [success |-> TRUE, errorType |-> "none", dependencies |-> ComponentPaths \ {p}]
    [] OTHER -> [success |-> FALSE, errorType |-> "syntax-error", dependencies |-> {}]

\* ComponentAnalyzer.parseReactComponent: safeParseFile turns every raised
\* error into an ErrorResult, which comes back as a ComponentInfo with
\* success: false; nothing is raised to the caller.
parseReactComponent(p, c) == ParseOutcome(p, c)

\* analyzeFile: dispatch on the extension; the default branch throws.
analyzeFileThrows(p) == p \notin ComponentPaths
analyzeFile(p, c) == parseReactComponent(p, c)

\* extractDependencies
extractDependencies(result) == result.dependencies

\* JSON.stringify(result).length * 2, in units of the cache budget
EntrySize(result) == IF result.success THEN 2 + Cardinality(result.dependencies) ELSE 1

\* ------------------------------------------------------------------ cache
\* the configured budget (maxCacheSizeMB), in the unit of EntrySize
MaxCacheSize == 4

\* analyzedAt (Date.now()) is kept as the rank of the entry among the cached
\* entries: the code only ever compares two timestamps of the cache.
RankTimestamps(cache) ==
  [p \in DOMAIN cache |->
     [cache[p] EXCEPT !.timestamp =
        Cardinality({q \in DOMAIN cache : cache[q].timestamp <= cache[p].timestamp})]]

\* the test of line 77: previousHash && currentHash.hash === previousHash.hash
SameContentMtime(hashes, p, cur) ==
  MapHas(hashes, p) /\ cur.hash = hashes[p].hash /\ cur.timestamp = hashes[p].timestamp
SameContent(hashes, p, cur) == MapHas(hashes, p) /\ cur.hash = hashes[p].hash

\* updateDependencyGraph: drop p from every dependents set (and every set that
\* is then empty), then add p under each of its declared dependencies.
updateDependencyGraph(graph, p, result) ==
  LET deps == extractDependencies(result)
      kept == {d \in DOMAIN graph : graph[d] \ {p} # {}}
  IN  [d \in kept \cup deps |->
         (IF d \in kept THEN graph[d] \ {p} ELSE {}) \cup (IF d \in deps THEN {p} ELSE {})]

\* invalidateDependents: delete the cache entry of every dependent of p.
invalidateNothing(cache, graph, p) == cache
\* (an invalidation that follows the graph over any number of hops)
RECURSIVE DependentsClosure(_, _)
DependentsClosure(graph, S) ==
  LET next == S \cup UNION {graph[d] : d \in S \cap DOMAIN graph}
  IN  IF next = S THEN S ELSE DependentsClosure(graph, next)
invalidateTransitively(cache, graph, p) ==
  IF ~MapHas(graph, p) THEN cache
  ELSE [q \in (DOMAIN cache) \ DependentsClosure(graph, graph[p]) |-> cache[q]]
invalidateDependents(cache, graph, p) ==
  IF ~MapHas(graph, p) THEN cache
  ELSE [q \in (DOMAIN cache) \ graph[p] |-> cache[q]]

\* getCacheStats().memoryUsage
RECURSIVE SumSizes(_, _)
SumSizes(cache, S) ==
  IF S = {} THEN 0
  ELSE LET p == CHOOSE x \in S : TRUE
       IN  EntrySize(cache[p].result) + SumSizes(cache, S \ {p})
memoryUsage(cache) == SumSizes(cache, DOMAIN cache)

\* cleanupCache: when over budget, walk the entries oldest first and delete
\* entry and hash until currentSize <= 0.8 * maxCacheSize.
\* (a loop that evicts every entry)
evictEverything(cache, hashes, currentSize) == [cache |-> EmptyMap, hashes |-> EmptyMap]
\* (a loop that forgets the hashes and keeps the entries)
dropHashes(cache, hashes, currentSize) == [cache |-> cache, hashes |-> EmptyMap]
RECURSIVE EvictOldest(_, _, _)
EvictOldest(cache, hashes, currentSize) ==
  IF currentSize * 10 <= MaxCacheSize * 8 \/ DOMAIN cache = {} THEN [cache |-> cache, hashes |-> hashes]
  ELSE LET p == CHOOSE x \in DOMAIN cache :
                  \A y \in DOMAIN cache : cache[x].timestamp <= cache[y].timestamp
       IN  EvictOldest(MapDelete(cache, p), MapDelete(hashes, p),
                       currentSize - EntrySize(cache[p].result))
cleanupNothing(cache, hashes) == [cache |-> cache, hashes |-> hashes]
cleanupCache(cache, hashes) ==
  IF memoryUsage(cache) > MaxCacheSize
    THEN EvictOldest(cache, hashes, memoryUsage(cache))
    ELSE [cache |-> cache, hashes |-> hashes]

\* ------------------------------------------------------------------ analyzeChangedFiles
NoHash == [filePath |-> "", hash |-> 0, timestamp |-> 0]
NoResult == [success |-> FALSE, errorType |-> "none", dependencies |-> {}]
IdleCall ==
  [pc |-> "idle", files |-> <<>>, i |-> 0, currentHash |-> NoHash, isNew |-> FALSE,
   result |-> NoResult, changes |-> <<>>, diskAtCall |-> [p \in Paths |-> Absent],
   last |-> "none", lastPath |-> ""]

CurrentPath == call.files[call.i]

\* the end of one loop iteration: the next path, or the cleanup after the loop
NextIteration(c, what) ==
  LET r == [c EXCEPT !.currentHash = NoHash, !.isNew = FALSE, !.result = NoResult,
                     !.last = what, !.lastPath = c.files[c.i]]
  IN  IF c.i < Len(c.files) THEN [r EXCEPT !.i = c.i + 1, !.pc = "exists"]
      ELSE [r EXCEPT !.pc = "cleanup"]

BatchLists ==
  {f \in UNION {[1..n -> Paths] : n \in 1..MaxBatchLen} :
     \A x, y \in DOMAIN f : x # y => f[x] # f[y]}

\* analyzeChangedFiles(changedPaths) is entered
StartCall ==
  /\ call.pc \in {"idle", "done", "rejected"}
  /\ ncalls < MaxCalls
  /\ \E f \in BatchLists :
       call' = [IdleCall EXCEPT !.pc = "exists", !.files = f, !.i = 1,
                                !.diskAtCall = disk, !.last = "start"]
  /\ ncalls' = ncalls + 1
  /\ UNCHANGED <<disk, mtime, edits, fileHashes, analysisCache, dependencyGraph>>
  /\ UNCHANGED <<watchVars, driftVars, streamVars, persistVars, overlapVars, chainVars, startVars, learnVars>>

\* lines 57-71: await fs.pathExists; the deletion branch runs without an await
CheckExists ==
  /\ call.pc = "exists"
  /\ LET p == CurrentPath IN
     IF disk[p] # Absent
       THEN /\ call' = [call EXCEPT !.pc = "hash", !.last = "exists"]
            /\ UNCHANGED <<fileHashes, analysisCache, dependencyGraph>>
       ELSE IF MapHas(analysisCache, p)
         THEN /\ call' = NextIteration(
                   [call EXCEPT !.changes = Append(@, [type |-> "deleted", filePath |-> p, success |-> FALSE])],
                   "deleted")
              /\ fileHashes' = MapDelete(fileHashes, p)
              /\ analysisCache' =
                   RankTimestamps(invalidateDependents(MapDelete(analysisCache, p), dependencyGraph, p))
              /\ UNCHANGED dependencyGraph
         ELSE /\ call' = NextIteration(call, "gone")
              /\ UNCHANGED <<fileHashes, analysisCache, dependencyGraph>>
  /\ UNCHANGED <<disk, mtime, edits, ncalls>>
  /\ UNCHANGED <<watchVars, driftVars, streamVars, persistVars, overlapVars, chainVars, startVars, learnVars>>

\* lines 74-84: await calculateFileHash (fs.stat raises when the file is gone,
\* outside the try block: the call rejects), then the unchanged test.  fs.stat
\* and fs.readFile are taken as one read of the file.
HashFile ==
  /\ call.pc = "hash"
  /\ LET p == CurrentPath
         cur == calculateFileHash(p, disk[p], mtime[p])
     IN  IF disk[p] = Absent
           THEN call' = [call EXCEPT !.pc = "rejected", !.last = "stat-raised"]
           ELSE IF SameContent(fileHashes, p, cur)
             THEN call' = NextIteration(call, "unchanged")
             ELSE call' = [call EXCEPT !.pc = "extract", !.currentHash = cur,
                                       !.isNew = ~MapHas(fileHashes, p), !.last = "hashed"]
  /\ UNCHANGED <<disk, mtime, edits, fileHashes, analysisCache, dependencyGraph, ncalls>>
  /\ UNCHANGED <<watchVars, driftVars, streamVars, persistVars, overlapVars, chainVars, startVars, learnVars>>

\* line 88: await analyzeFile; a raised error is caught at line 113
ExtractFile ==
  /\ call.pc = "extract"
  /\ LET p == CurrentPath IN
     IF analyzeFileThrows(p)
       THEN call' = NextIteration(call, "raised")
       ELSE call' = [call EXCEPT !.pc = "commit", !.result = analyzeFile(p, disk[p]),
                                 !.last = "extracted"]
  /\ UNCHANGED <<disk, mtime, edits, fileHashes, analysisCache, dependencyGraph, ncalls>>
  /\ UNCHANGED <<watchVars, driftVars, streamVars, persistVars, overlapVars, chainVars, startVars, learnVars>>

\* lines 90-111: push the change, write hash and entry, rebuild the edges of
\* the path, invalidate its dependents
CommitResult ==
  /\ call.pc = "commit"
  /\ LET p == CurrentPath
         r == call.result
         entry == [result |-> r, hash |-> call.currentHash.hash,
                   timestamp |-> Cardinality(DOMAIN analysisCache) + 1,
                   dependencies |-> extractDependencies(r)]
         graph == updateDependencyGraph(dependencyGraph, p, r)
     IN  /\ call' = NextIteration(
                [call EXCEPT !.changes = Append(@,
                   [type |-> IF call.isNew THEN "added" ELSE "modified",
                    filePath |-> p, success |-> r.success])],
                "committed")
         /\ fileHashes' = MapSet(fileHashes, p, call.currentHash)
         /\ dependencyGraph' = graph
         /\ analysisCache' =
              RankTimestamps(invalidateDependents(MapSet(analysisCache, p, entry), graph, p))
  /\ UNCHANGED <<disk, mtime, edits, ncalls>>
  /\ UNCHANGED <<watchVars, driftVars, streamVars, persistVars, overlapVars, chainVars, startVars, learnVars>>

\* lines 119-121: await cleanupCache, return changes
CleanupAndReturn ==
  /\ call.pc = "cleanup"
  /\ LET c == cleanupCache(analysisCache, fileHashes) IN
       /\ analysisCache' = RankTimestamps(c.cache)
       /\ fileHashes' = c.hashes
       /\ call' = [call EXCEPT !.pc = "done",
                                !.last = IF c.cache = analysisCache THEN "returned" ELSE "evicted"]
  /\ UNCHANGED <<disk, mtime, edits, dependencyGraph, ncalls>>
  /\ UNCHANGED <<watchVars, driftVars, streamVars, persistVars, overlapVars, chainVars, startVars, learnVars>>

\* ------------------------------------------------------------------ file system
NextMtime(t) == (t + 1) % (MaxMtime + 1)

\* an editor saves new bytes
WriteFile ==
  /\ edits < MaxEdits
  /\ \E p \in Paths, c \in Contents :
       /\ c \in ContentsOf(p)
       /\ disk[p] # c
       /\ disk' = [disk EXCEPT ![p] = c]
       /\ mtime' = [mtime EXCEPT ![p] = NextMtime(@)]
  /\ edits' = edits + 1
  /\ UNCHANGED <<fileHashes, analysisCache, dependencyGraph, call, ncalls>>
  /\ UNCHANGED <<watchVars, driftVars, streamVars, persistVars, overlapVars, chainVars, startVars, learnVars>>

\* the same bytes are saved again: only the mtime changes
TouchFile ==
  /\ edits < MaxEdits
  /\ \E p \in Paths :
       /\ disk[p] # Absent
       /\ mtime' = [mtime EXCEPT ![p] = NextMtime(@)]
  /\ edits' = edits + 1
  /\ UNCHANGED <<disk, fileHashes, analysisCache, dependencyGraph, call, ncalls>>
  /\ UNCHANGED <<watchVars, driftVars, streamVars, persistVars, overlapVars, chainVars, startVars, learnVars>>

DeleteFile ==
  /\ edits < MaxEdits
  /\ \E p \in Paths :
       /\ disk[p] # Absent
       /\ disk' = [disk EXCEPT ![p] = Absent]
  /\ edits' = edits + 1
  /\ UNCHANGED <<mtime, fileHashes, analysisCache, dependencyGraph, call, ncalls>>
  /\ UNCHANGED <<watchVars, driftVars, streamVars, persistVars, overlapVars, chainVars, startVars, learnVars>>

\* ------------------------------------------------------------------ specification of the cache
CacheInit ==
  /\ disk = [p \in Paths |-> Absent]
  /\ mtime = [p \in Paths |-> 0]
  /\ edits = 0
  /\ fileHashes = EmptyMap
  /\ analysisCache = EmptyMap
  /\ dependencyGraph = EmptyMap
  /\ call = IdleCall
  /\ ncalls = 0

CacheNext ==
  \/ StartCall
  \/ CheckExists
  \/ HashFile
  \/ ExtractFile
  \/ CommitResult
  \/ CleanupAndReturn
  \/ WriteFile
  \/ TouchFile
  \/ DeleteFile


\* ================================================================== DriftAnalyzer
\* bounds of the evaluator model
\* files in the ProjectAnalysis handed to analyzeForDrift
MaxAnalysisFiles == 3
\* totalFiles of the analysis handed to calculateComplianceScore
MaxScoredFiles == 8
\* violations in the list handed to calculateComplianceScore
MaxScoredViolations == 2

\* the rule types the detectors emit
RuleTypes ==
  {"component-duplication", "inline-styles", "naming-convention", "hardcoded-colors",
   "spacing-violation", "typography-violation", "component-drift", "accessibility",
   "color-drift"}

\* config.rules tables: the default of the config loader, no table at all,
\* every rule type an error, and a table that switches rule types off
DefaultRules ==
  [t \in {"inline-styles", "hardcoded-colors", "component-duplication", "spacing-violation",
          "accessibility", "naming-convention"} |->
     IF t \in {"component-duplication", "accessibility"} THEN "error" ELSE "warning"]
StrictRules == [t \in RuleTypes |-> "error"]
QuietRules ==
  [t \in RuleTypes |->
     IF t \in {"inline-styles", "color-drift", "accessibility"} THEN "off"
     ELSE IF t = "component-duplication" THEN "error" ELSE "warning"]
RuleTables == {DefaultRules, EmptyMap, StrictRules, QuietRules}

\* component names: what the string tests of the detectors give on them
NoName == "<undefined>"
toLowerCase(name) ==
  CASE name = "Button" -> "button"
    [] name = "SubmitButton" -> "submitbutton"
    [] name = "card" -> "card"
    [] name = "failed" -> "failed"
commonPatterns == {"button", "card", "modal", "dropdown", "tab", "form"}
includes(nameLower, pattern) ==
  <<nameLower, pattern>> \in {<<"button", "button">>, <<"submitbutton", "button">>, <<"card", "card">>}
\* /^[A-Z][a-zA-Z0-9]*$/
IsPascalCase(name) == name \in {"Button", "SubmitButton"}

\* Results of the extractors.  A component keeps its name and, of its styling,
\* the type and whether a colour is neither var(...) nor current*; a style
\* sheet keeps how many of its values pass the filter of each detector; a
\* template keeps the counts the detectors read.
ComponentSamples ==
  { [filePath |-> "Button.tsx", success |-> TRUE, name |-> "Button",
     styling |-> [type |-> "css", hardcodedColor |-> FALSE]],
    [filePath |-> "SubmitButton.tsx", success |-> TRUE, name |-> "SubmitButton",
     styling |-> [type |-> "inline", hardcodedColor |-> TRUE]],
    [filePath |-> "card.jsx", success |-> TRUE, name |-> "card",
     styling |-> [type |-> "css", hardcodedColor |-> FALSE]],
    [filePath |-> "failed.tsx", success |-> FALSE, name |-> "failed",
     styling |-> [type |-> "css", hardcodedColor |-> FALSE]],
    [filePath |-> "broken.tsx", success |-> TRUE, name |-> NoName,
     styling |-> [type |-> "css", hardcodedColor |-> FALSE]] }
StyleSamples ==
  { [filePath |-> "theme.css", success |-> TRUE, hardcodedColors |-> 2, spacing |-> <<"8px", "16px", "24px", "7px">>,
     invalidSizes |-> 1, invalidWeights |-> 1, newColors |-> 1],
    [filePath |-> "tokens.css", success |-> TRUE, hardcodedColors |-> 0, spacing |-> <<"0", "auto", "1.5rem", "16px">>,
     invalidSizes |-> 0, invalidWeights |-> 0, newColors |-> 0] }
TemplateSamples ==
  { [filePath |-> "index.html", success |-> TRUE, inlineStyles |-> 1, plainButton |-> TRUE,
     missingLabels |-> 1, missingAlts |-> 1] }

\* What setPatterns hands over: the patterns learned from the project (the
\* spacing unit, and the component Button, used 23 times)
LearnedPatterns ==
  [spacing |-> [unit |-> 4],
   components |-> {[name |-> "Button", usage |-> 23]}]
\* config.patterns.spacingGrid of the default configuration
ConfigSpacingGrid == 8

EmptyAnalysis == [components |-> <<>>, styles |-> <<>>, templates |-> <<>>]

\* for (const x of list) violations.push(...): the violations of each element, in order
Elements(list) == {list[i] : i \in DOMAIN list}
ConcatMap(pushed, list) ==
  LET f[i \in 0..Len(list)] == IF i = 0 THEN <<>> ELSE f[i - 1] \o pushed[list[i]]
  IN  f[Len(list)]
Repeat(v, n) == [i \in 1..n |-> v]
\* the message of a violation is kept as the list of values it names
Violation(type, severity, filePath) ==
  [type |-> type, severity |-> severity, filePath |-> filePath, message |-> <<>>]

\* getSeverity
getSeverity(table, ruleName) ==
  LET severity == IF MapHas(table, ruleName) THEN table[ruleName] ELSE "warning"
  IN  IF severity = "off" THEN "info" ELSE severity

\* component.name.toLowerCase() of line 93 raises a TypeError for a component
\* (of a hand-written or older analysis document) that has no name
Raises(a) ==
  \E i \in DOMAIN a.components : a.components[i].success /\ a.components[i].name = NoName

\* detectComponentDuplication
detectComponentDuplication(components, table) ==
  LET base(pattern) ==
        \E i \in DOMAIN components :
          components[i].success /\ toLowerCase(components[i].name) = pattern
      variations(c) ==
        {pattern \in commonPatterns :
           /\ includes(toLowerCase(c.name), pattern)
           /\ toLowerCase(c.name) # pattern
           /\ base(pattern)}
  IN  ConcatMap([c \in Elements(components) |->
                  IF ~c.success THEN <<>>
                  ELSE Repeat(Violation("component-duplication",
                                        getSeverity(table, "component-duplication"), c.filePath),
                              Cardinality(variations(c)))],
                components)

\* detectInlineStyles
detectInlineStyles(components, table) ==
  LET v(c) == Violation("inline-styles", getSeverity(table, "inline-styles"), c.filePath)
  IN  ConcatMap([c \in Elements(components) |->
                  IF ~c.success THEN <<>>
                  ELSE (IF c.styling.type = "inline" THEN <<v(c)>> ELSE <<>>)
                       \o (IF c.styling.hardcodedColor THEN <<v(c)>> ELSE <<>>)],
                components)

\* detectNamingViolations, with the default expectedNaming 'PascalCase'
detectNamingViolations(components, table) ==
  ConcatMap([c \in Elements(components) |->
              IF c.success /\ ~IsPascalCase(c.name)
                THEN <<Violation("naming-convention", getSeverity(table, "naming-convention"), c.filePath)>>
                ELSE <<>>],
            components)

\* detectHardcodedColors
detectHardcodedColors(styles, table) ==
  ConcatMap([s \in Elements(styles) |->
              IF s.success /\ s.hardcodedColors > 0
                THEN <<Violation("hardcoded-colors", getSeverity(table, "hardcoded-colors"), s.filePath)>>
                ELSE <<>>],
            styles)

\* parseSpacingValue on the spacing strings of the samples (Null: null)
Null == -1
parseSpacingValue(value) ==
  CASE value = "0" -> 0
    [] value = "auto" -> Null
    [] value = "7px" -> 7
    [] value = "8px" -> 8
    [] value = "16px" -> 16
    [] value = "24px" -> 24
    [] value = "1.5rem" -> 24

\* this.patterns?.spacing.unit || this.config.patterns?.spacingGrid || 8
spacingGridOf(hasPatterns) ==
  IF hasPatterns /\ LearnedPatterns.spacing.unit # 0 THEN LearnedPatterns.spacing.unit
  ELSE ConfigSpacingGrid

\* the filter of lines 256-263
EveryValue(value, grid) == TRUE
OffGrid(value, grid) ==
  LET px == parseSpacingValue(value)
  IN  px # Null /\ px # 0 /\ px % grid # 0

\* invalidSpacing.slice(0, 3)
Slice3(list) == SubSeq(list, 1, IF Len(list) < 3 THEN Len(list) ELSE 3)

\* detectSpacingViolations
detectSpacingViolations(styles, table, hasPatterns) ==
  ConcatMap([s \in Elements(styles) |->
              LET invalidSpacing ==
                    SelectSeq(s.spacing, LAMBDA v : OffGrid(v, spacingGridOf(hasPatterns)))
              IN  IF s.success /\ invalidSpacing # <<>>
                    THEN <<[Violation("spacing-violation", getSeverity(table, "spacing-violation"),
                                      s.filePath) EXCEPT !.message = Slice3(invalidSpacing)]>>
                    ELSE <<>>],
            styles)

\* detectTypographyViolations: nothing without patterns; severity is the literal 'warning'
detectTypographyViolations(styles, hasPatterns) ==
  IF ~hasPatterns THEN <<>>
  ELSE ConcatMap([s \in Elements(styles) |->
                   IF ~s.success THEN <<>>
                   ELSE (IF s.invalidSizes > 0
                           THEN <<Violation("typography-violation", "warning", s.filePath)>> ELSE <<>>)
                        \o (IF s.invalidWeights > 0
                              THEN <<Violation("typography-violation", "warning", s.filePath)>> ELSE <<>>)],
                 styles)

\* detectHTMLViolations: the severity of 'component-drift' is the literal 'warning'
detectHTMLViolations(templates, table) ==
  ConcatMap([t \in Elements(templates) |->
              IF ~t.success THEN <<>>
              ELSE (IF t.inlineStyles > 0
                      THEN <<Violation("inline-styles", getSeverity(table, "inline-styles"), t.filePath)>>
                      ELSE <<>>)
                   \o (IF t.plainButton
                         THEN <<Violation("component-drift", "warning", t.filePath)>> ELSE <<>>)],
            templates)

\* detectAccessibilityViolations
detectAccessibilityViolations(templates, table) ==
  LET v(t) == Violation("accessibility", getSeverity(table, "accessibility"), t.filePath)
  IN  ConcatMap([t \in Elements(templates) |->
                  IF ~t.success THEN <<>>
                  ELSE (IF t.missingLabels > 0 THEN <<v(t)>> ELSE <<>>)
                       \o (IF t.missingAlts > 0 THEN <<v(t)>> ELSE <<>>)],
                templates)

\* detectPatternViolations: the severity of 'color-drift' is the literal 'warning'
detectPatternViolations(a, hasPatterns) ==
  IF ~hasPatterns THEN <<>>
  ELSE ConcatMap([s \in Elements(a.styles) |->
                   IF s.success /\ s.newColors > 0
                     THEN <<Violation("color-drift", "warning", s.filePath)>> ELSE <<>>],
                 a.styles)

\* filterViolations
filterNothing(violations, table) == violations
filterViolations(violations, table) ==
  SelectSeq(violations, LAMBDA v : ~(MapHas(table, v.type) /\ table[v.type] = "off"))

CountSeverity(violations, severity) ==
  Cardinality({i \in DOMAIN violations : violations[i].severity = severity})

\* Math.round(n / d) for d > 0: the nearest integer, a half going up
MathRound(n, d) == (2 * n + d) \div (2 * d)

ScoreNoFloor(totalFiles, violations) ==
  IF totalFiles = 0 THEN 100
  ELSE MathRound(100 * (totalFiles - Cardinality({violations[i].filePath : i \in DOMAIN violations}))
                   - (CountSeverity(violations, "error") * 5
                      + CountSeverity(violations, "warning") * 2) * totalFiles, totalFiles)

\* calculateComplianceScore, lines 455-470, on the number of files of the
\* analysis.  The quotient is exact: for totalFiles below 40 the double
\* arithmetic of lines 458-468 has the same rounding.
ScoreOf(totalFiles, violations) ==
  IF totalFiles = 0 THEN 100
  ELSE LET filesWithViolations == Cardinality({violations[i].filePath : i \in DOMAIN violations})
           errors == CountSeverity(violations, "error")
           warnings == CountSeverity(violations, "warning")
           rounded == MathRound(100 * (totalFiles - filesWithViolations)
                                  - (errors * 5 + warnings * 2) * totalFiles, totalFiles)
       IN  IF rounded > 0 THEN rounded ELSE 0

TotalFiles(a) == Len(a.components) + Len(a.styles) + Len(a.templates)
calculateComplianceScore(a, violations) == ScoreOf(TotalFiles(a), violations)

\* createSummary
createSummary(violations) ==
  [total |-> Len(violations),
   errors |-> CountSeverity(violations, "error"),
   warnings |-> CountSeverity(violations, "warning"),
   byType |-> [t \in {violations[i].type : i \in DOMAIN violations} |->
                 Cardinality({i \in DOMAIN violations : violations[i].type = t})]]

\* every violation the detectors push, in the order of lines 48-64
DetectAll(a, table, hasPatterns) ==
  detectComponentDuplication(a.components, table)
  \o detectInlineStyles(a.components, table)
  \o detectNamingViolations(a.components, table)
  \o detectHardcodedColors(a.styles, table)
  \o detectSpacingViolations(a.styles, table, hasPatterns)
  \o detectTypographyViolations(a.styles, hasPatterns)
  \o detectHTMLViolations(a.templates, table)
  \o detectAccessibilityViolations(a.templates, table)
  \o detectPatternViolations(a, hasPatterns)

NoDriftResult == [status |-> "none"]
RaisedDrift == [status |-> "raised"]

\* analyzeForDrift: no detector call is inside a try block, so an error raised
\* by one of them leaves the method
analyzeForDrift(a, table, hasPatterns) ==
  IF Raises(a) THEN RaisedDrift
  ELSE LET filteredViolations == filterViolations(DetectAll(a, table, hasPatterns), table)
       IN  [status |-> "returned",
            violations |-> filteredViolations,
            complianceScore |-> calculateComplianceScore(a, filteredViolations),
            summary |-> createSummary(filteredViolations)]

FilesOf(a) ==
  {a.components[i].filePath : i \in DOMAIN a.components}
  \cup {a.styles[i].filePath : i \in DOMAIN a.styles}
  \cup {a.templates[i].filePath : i \in DOMAIN a.templates}

\* the constructor is given a configuration (new DriftAnalyzer(config))
LoadRules ==
  /\ \E table \in RuleTables : table # rules /\ rules' = table
  /\ driftResult' = NoDriftResult
  /\ UNCHANGED <<patterns, analysis, scoredFiles, scoredViolations, score>>
  /\ UNCHANGED <<cacheVars, watchVars, streamVars, persistVars, overlapVars, chainVars, startVars, learnVars>>

\* setPatterns
setPatterns ==
  /\ ~patterns
  /\ patterns' = TRUE
  /\ driftResult' = NoDriftResult
  /\ UNCHANGED <<rules, analysis, scoredFiles, scoredViolations, score>>
  /\ UNCHANGED <<cacheVars, watchVars, streamVars, persistVars, overlapVars, chainVars, startVars, learnVars>>

\* the caller puts one more extractor result into the analysis it will hand over
AddResult ==
  /\ TotalFiles(analysis) < MaxAnalysisFiles
  /\ \/ \E c \in ComponentSamples :
          /\ c.filePath \notin FilesOf(analysis)
          /\ analysis' = [analysis EXCEPT !.components = Append(@, c)]
     \/ \E s \in StyleSamples :
          /\ s.filePath \notin FilesOf(analysis)
          /\ analysis' = [analysis EXCEPT !.styles = Append(@, s)]
     \/ \E t \in TemplateSamples :
          /\ t.filePath \notin FilesOf(analysis)
          /\ analysis' = [analysis EXCEPT !.templates = Append(@, t)]
  /\ driftResult' = NoDriftResult
  /\ UNCHANGED <<rules, patterns, scoredFiles, scoredViolations, score>>
  /\ UNCHANGED <<cacheVars, watchVars, streamVars, persistVars, overlapVars, chainVars, startVars, learnVars>>

\* analyzeForDrift(analysis) is called
AnalyzeForDrift ==
  /\ driftResult = NoDriftResult
  /\ driftResult' = analyzeForDrift(analysis, rules, patterns)
  /\ UNCHANGED <<rules, patterns, analysis, scoredFiles, scoredViolations, score>>
  /\ UNCHANGED <<cacheVars, watchVars, streamVars, persistVars, overlapVars, chainVars, startVars, learnVars>>

\* calculateComplianceScore is called for an analysis with one more file
ScoreMoreFiles ==
  /\ scoredFiles < MaxScoredFiles
  /\ scoredFiles' = scoredFiles + 1
  /\ score' = ScoreOf(scoredFiles + 1, scoredViolations)
  /\ UNCHANGED <<rules, patterns, analysis, driftResult, scoredViolations>>
  /\ UNCHANGED <<cacheVars, watchVars, streamVars, persistVars, overlapVars, chainVars, startVars, learnVars>>

\* calculateComplianceScore is called for a list with one more violation (of
\* one of the files, an error or a warning: what filterViolations lets through)
ScoreMoreViolations ==
  /\ Len(scoredViolations) < MaxScoredViolations
  /\ \E f \in 1..scoredFiles, severity \in {"error", "warning"} :
       LET violations == Append(scoredViolations, Violation("inline-styles", severity, f))
       IN  /\ scoredViolations' = violations
           /\ score' = ScoreOf(scoredFiles, violations)
  /\ UNCHANGED <<rules, patterns, analysis, driftResult, scoredFiles>>
  /\ UNCHANGED <<cacheVars, watchVars, streamVars, persistVars, overlapVars, chainVars, startVars, learnVars>>

DriftInit ==
  /\ rules = DefaultRules
  /\ patterns = FALSE
  /\ analysis = EmptyAnalysis
  /\ driftResult = NoDriftResult
  /\ scoredFiles = 0
  /\ scoredViolations = <<>>
  /\ score = ScoreOf(0, <<>>)

DriftNext ==
  \/ LoadRules
  \/ setPatterns
  \/ AddResult
  \/ AnalyzeForDrift

ScoreNext ==
  \/ ScoreMoreFiles
  \/ ScoreMoreViolations

\* ================================================================== FileWatcher
\* bounds of the watcher model
\* raw file-system events delivered by the backend in one behaviour
MaxEvents == 3
\* processPendingChanges invocations that take a batch in one behaviour
MaxBatches == 2
\* startWatching invocations in one behaviour
MaxSessions == 2
\* stopWatching invocations in progress at the same time
MaxStops == 2
\* violations in the result of one drift evaluation of a batch
MaxNewViolations == 1

WatchedPaths == {"a.tsx", "b.tsx"}

BatchIds == 1..MaxBatches
StopIds == 1..MaxStops
\* this.patterns before any patterns were loaded or extracted; the patterns
\* that invocation b of processPendingChanges extracts are written b
NoPatterns == 0
StartIds == 1..MaxSessions
\* score: driftResult.complianceScore, read only after the evaluation
NoBatch == [pc |-> "none", files |-> {}, writes |-> 0, score |-> 0]
DoneBatch == [pc |-> "done", files |-> {}, writes |-> 0, score |-> 0]
ActivePcs == {"analyze", "patterns", "drift"}

RECURSIVE SeqWithout(_, _)
SeqWithout(q, x) ==
  IF q = <<>> THEN <<>>
  ELSE IF Head(q) = x THEN SeqWithout(Tail(q), x)
  ELSE <<Head(q)>> \o SeqWithout(Tail(q), x)
TimerArmed(timers, p) == \E i \in DOMAIN timers : timers[i] = p

\* startWatching, lines 92-100: the guard, then the await of loadConfig
StartBegins(s) ==
  /\ ~isWatching
  /\ nsessions < MaxSessions
  /\ s = nsessions + 1
  /\ nsessions' = nsessions + 1
  /\ starts' = [starts EXCEPT ![s] = "config"]
  /\ UNCHANGED <<isWatching, watcher, debounceTimers, pendingChanges, batch, nbatches, stopPc,
                 nevents, burst, handed, session>>
  /\ UNCHANGED <<leakedWatchers, thisPatterns, analyzerPatterns, storedPatterns>>
  /\ UNCHANGED <<cacheVars, driftVars, streamVars, persistVars, overlapVars, chainVars, learnVars>>

\* lines 101-122: a new DriftAnalyzer (without patterns) and a new stream,
\* then the await of patternStorage.loadPatterns
StartLoadsConfig(s) ==
  /\ starts[s] = "config"
  /\ starts' = [starts EXCEPT ![s] = "patterns"]
  /\ analyzerPatterns' = NoPatterns
  /\ UNCHANGED <<leakedWatchers, thisPatterns, storedPatterns>>
  /\ UNCHANGED watchVars
  /\ UNCHANGED <<cacheVars, driftVars, streamVars, persistVars, overlapVars, chainVars, learnVars>>

\* loadPatterns, lines 471-478, then the awaits of loadCache and validateCache
\* (lines 123-126): the stored patterns, if there are any, go to this.patterns
\* and to the DriftAnalyzer
StartLoadsPatterns(s) ==
  /\ starts[s] = "patterns"
  /\ starts' = [starts EXCEPT ![s] = "cache"]
  /\ IF storedPatterns # NoPatterns
       THEN thisPatterns' = storedPatterns /\ analyzerPatterns' = storedPatterns
       ELSE UNCHANGED <<thisPatterns, analyzerPatterns>>
  /\ UNCHANGED <<leakedWatchers, storedPatterns>>
  /\ UNCHANGED watchVars
  /\ UNCHANGED <<cacheVars, driftVars, streamVars, persistVars, overlapVars, chainVars, learnVars>>

\* lines 149-183: the watcher is created and assigned to this.watcher, the
\* handlers are attached, isWatching is set.  A watcher that this.watcher held
\* and that no stopWatching is closing stays open without an owner.
StartOpens(s) ==
  /\ starts[s] = "cache"
  /\ starts' = [starts EXCEPT ![s] = "done"]
  /\ isWatching' = TRUE
  /\ watcher' = "open"
  /\ leakedWatchers' = IF watcher = "open" THEN leakedWatchers + 1 ELSE leakedWatchers
  /\ session' = [session EXCEPT !.startTime = s]
  /\ UNCHANGED <<debounceTimers, pendingChanges, batch, nbatches, stopPc, nevents, nsessions,
                 burst, handed>>
  /\ UNCHANGED <<thisPatterns, analyzerPatterns, storedPatterns>>
  /\ UNCHANGED <<cacheVars, driftVars, streamVars, persistVars, overlapVars, chainVars, learnVars>>

\* handleFileChange(event, filePath): all timers have the same delay, so the
\* timer that is (re)armed now is the last to expire.
ArmTimer(timers, p) == Append(SeqWithout(timers, p), p)
handleFileChange(p) ==
  /\ watcher = "open" \/ leakedWatchers > 0
  /\ nevents < MaxEvents
  /\ debounceTimers' = ArmTimer(debounceTimers, p)
  /\ pendingChanges' = pendingChanges \cup {p}
  /\ nevents' = nevents + 1
  /\ burst' = [burst EXCEPT ![p] = "open"]
  /\ handed' = [handed EXCEPT ![p] = IF TimerArmed(debounceTimers, p) THEN @ ELSE 0]
  /\ UNCHANGED <<isWatching, watcher, batch, nbatches, stopPc, nsessions, session>>
  /\ UNCHANGED <<cacheVars, driftVars, streamVars, persistVars, overlapVars, chainVars, startVars, learnVars>>

RawEvent == \E p \in WatchedPaths : handleFileChange(p)

\* processPendingChanges, lines 294-305: the paths taken into the batch
TakeBatch(pending, timers) == pending

\* the timer callback of lines 281-284, with processPendingChanges up to its
\* first await (the call of analyzeChangedFiles)
TimerFires ==
  /\ debounceTimers # <<>>
  /\ LET p == Head(debounceTimers)
         files == TakeBatch(pendingChanges, Tail(debounceTimers))
     IN  /\ debounceTimers' = Tail(debounceTimers)
         /\ burst' = [burst EXCEPT ![p] = "settled"]
         /\ IF pendingChanges = {}
              THEN UNCHANGED <<pendingChanges, batch, nbatches, handed, session>>
              ELSE /\ nbatches < MaxBatches
                   /\ pendingChanges' = pendingChanges \ files
                   /\ nbatches' = nbatches + 1
                   /\ batch' = [batch EXCEPT ![nbatches + 1] =
                                      [NoBatch EXCEPT !.pc = "analyze", !.files = files]]
                   /\ handed' = [q \in WatchedPaths |->
                                   IF q \in files THEN handed[q] + 1 ELSE handed[q]]
  /\ UNCHANGED <<isWatching, watcher, stopPc, nevents, nsessions, session>>
  /\ UNCHANGED <<cacheVars, driftVars, streamVars, persistVars, overlapVars, chainVars, startVars, learnVars>>

\* One loop iteration of the analyzeChangedFiles call of the batch writes the
\* cache and reports a change: the deletion branch (incrementalAnalyzer.ts
\* lines 58-69) or the commit of an extracted result (lines 90-111).
CacheWrite(b) ==
  /\ batch[b].pc = "analyze"
  /\ batch[b].writes < Cardinality(batch[b].files)
  /\ batch' = [batch EXCEPT ![b].writes = @ + 1]
  /\ UNCHANGED <<isWatching, watcher, debounceTimers, pendingChanges, nbatches, stopPc,
                 nevents, nsessions, burst, handed, session>>
  /\ UNCHANGED <<cacheVars, driftVars, streamVars, persistVars, overlapVars, chainVars, startVars, learnVars>>

\* what the awaited call can do after the given number of cache writes: every
\* reported change comes with a write, so the list of changes is empty exactly
\* when nothing was written; the call can reject at any path (fs.stat)
Outcomes(writes) == IF writes = 0 THEN {"nothing", "rejected"} ELSE {"changes", "rejected"}

\* driftResult.complianceScore of an evaluation of the given number of changed
\* files that found the given number of violations (warnings in one file)
evaluationScore(files, found) ==
  ScoreOf(files, Repeat(Violation("inline-styles", "warning", "a.tsx"), found))

\* performDriftAnalysis, lines 432-465, run by invocation b: the evaluation
\* returns its result and the session is updated (lines 433-437)
performDriftAnalysis(b, batchBefore, sessionBefore) ==
  \E newViolations \in 0..MaxNewViolations :
    LET complianceScore == evaluationScore(batch[b].writes, newViolations) IN
      /\ batch' = [batchBefore EXCEPT ![b].pc = "drift", ![b].score = complianceScore]
      /\ session' = IF newViolations > 0
                      THEN [sessionBefore EXCEPT !.violationsFound = @ + newViolations,
                                                 !.complianceScore = complianceScore]
                      ELSE sessionBefore

\* lines 305-323 and 343-345: analyzeChangedFiles rejects (catch), returns no
\* change (return), or returns changes: the session counts them (line 306)
\* and updatePatterns runs.  When no change is significant it returns at
\* line 358 without an await and performDriftAnalysis follows at once;
\* otherwise it assigns the patterns extracted from the cache to
\* this.patterns (line 403) and awaits savePatterns of them.
AnalysisReturns(b) ==
  /\ batch[b].pc = "analyze"
  /\ \E outcome \in Outcomes(batch[b].writes) :
       IF outcome = "changes"
         THEN LET counted == [session EXCEPT !.changesDetected = @ + batch[b].writes] IN
              \E significantChanges \in BOOLEAN :
                IF ~significantChanges
                  THEN /\ performDriftAnalysis(b, batch, counted)
                       /\ UNCHANGED thisPatterns
                  ELSE /\ batch' = [batch EXCEPT ![b].pc = "patterns"]
                       /\ thisPatterns' = b
                       /\ session' = counted
         ELSE /\ batch' = [batch EXCEPT ![b] = DoneBatch]
              /\ UNCHANGED <<thisPatterns, session>>
  /\ UNCHANGED <<isWatching, watcher, debounceTimers, pendingChanges, nbatches, stopPc,
                 nevents, nsessions, burst, handed>>
  /\ UNCHANGED <<starts, leakedWatchers, analyzerPatterns, storedPatterns>>
  /\ UNCHANGED <<cacheVars, driftVars, streamVars, persistVars, overlapVars, chainVars, learnVars>>

\* lines 404-410 and 321-324: savePatterns has stored the patterns it was
\* given and the DriftAnalyzer gets this.patterns; then performDriftAnalysis
\* evaluates the changes
PatternsUpdated(b) ==
  /\ batch[b].pc = "patterns"
  /\ storedPatterns' = b
  /\ analyzerPatterns' = thisPatterns
  /\ performDriftAnalysis(b, batch, session)
  /\ UNCHANGED <<isWatching, watcher, debounceTimers, pendingChanges, nbatches, stopPc,
                 nevents, nsessions, burst, handed>>
  /\ UNCHANGED <<starts, leakedWatchers, thisPatterns>>
  /\ UNCHANGED <<cacheVars, driftVars, streamVars, persistVars, overlapVars, chainVars, learnVars>>

\* line 404 and 343-345: savePatterns rejects; updatePatterns rejects with it
\* before line 406 and the catch of processPendingChanges ends the batch
PatternsSaveFails(b) ==
  /\ batch[b].pc = "patterns"
  /\ batch' = [batch EXCEPT ![b] = DoneBatch]
  /\ UNCHANGED <<isWatching, watcher, debounceTimers, pendingChanges, nbatches, stopPc,
                 nevents, nsessions, burst, handed, session>>
  /\ UNCHANGED <<cacheVars, driftVars, streamVars, persistVars, overlapVars, chainVars, startVars, learnVars>>

\* lines 325-341: the result is streamed and 'analysis-complete' is emitted
BatchCompletes(b) ==
  /\ batch[b].pc = "drift"
  /\ batch' = [batch EXCEPT ![b] = DoneBatch]
  /\ UNCHANGED <<isWatching, watcher, debounceTimers, pendingChanges, nbatches, stopPc,
                 nevents, nsessions, burst, handed, session>>
  /\ UNCHANGED <<cacheVars, driftVars, streamVars, persistVars, overlapVars, chainVars, startVars, learnVars>>

\* stopWatching, lines 196-208.  Invocation s passes the guard of line 196,
\* which reads isWatching (written only at line 224), clears every timer and,
\* when this.watcher is set, calls close(); otherwise it goes on to saveCache.
StopBegins(s) ==
  /\ isWatching
  /\ stopPc[s] = "idle"
  /\ \A t \in StopIds : t < s => stopPc[t] # "idle"
  /\ debounceTimers' = <<>>
  /\ burst' = [p \in WatchedPaths |->
                 IF TimerArmed(debounceTimers, p) THEN "cancelled" ELSE burst[p]]
  /\ watcher' = IF watcher = "none" THEN "none" ELSE "closing"
  /\ stopPc' = [stopPc EXCEPT ![s] = IF watcher = "none" THEN "saving" ELSE "closing"]
  /\ UNCHANGED <<isWatching, pendingChanges, batch, nbatches, nevents, nsessions, handed, session>>
  /\ UNCHANGED <<cacheVars, driftVars, streamVars, persistVars, overlapVars, chainVars, startVars, learnVars>>

\* lines 209-222: close() has resolved, this.watcher is unset, dashboard and
\* stream stop, saveCache is called.  When a startWatching has assigned a new
\* watcher since close() was called, it is that watcher this.watcher forgets.
StopCloses(s) ==
  /\ stopPc[s] = "closing"
  /\ watcher' = "none"
  /\ leakedWatchers' = IF watcher = "open" THEN leakedWatchers + 1 ELSE leakedWatchers
  /\ stopPc' = [stopPc EXCEPT ![s] = "saving"]
  /\ UNCHANGED <<isWatching, debounceTimers, pendingChanges, batch, nbatches, nevents,
                 nsessions, burst, handed, session>>
  /\ UNCHANGED <<starts, thisPatterns, analyzerPatterns, storedPatterns>>
  /\ UNCHANGED <<cacheVars, driftVars, streamVars, persistVars, overlapVars, chainVars, learnVars>>

\* lines 224-231: saveCache has resolved
StopCompletes(s) ==
  /\ stopPc[s] = "saving"
  /\ isWatching' = FALSE
  /\ stopPc' = [stopPc EXCEPT ![s] = "idle"]
  /\ UNCHANGED <<watcher, debounceTimers, pendingChanges, batch, nbatches, nevents,
                 nsessions, burst, handed, session>>
  /\ UNCHANGED <<cacheVars, driftVars, streamVars, persistVars, overlapVars, chainVars, startVars, learnVars>>

WatcherInit ==
  /\ isWatching = FALSE
  /\ watcher = "none"
  /\ debounceTimers = <<>>
  /\ pendingChanges = {}
  /\ batch = [b \in BatchIds |-> NoBatch]
  /\ nbatches = 0
  /\ stopPc = [s \in StopIds |-> "idle"]
  /\ nevents = 0
  /\ nsessions = 0
  /\ burst = [p \in WatchedPaths |-> "none"]
  /\ handed = [p \in WatchedPaths |-> 0]
  /\ session = [startTime |-> 0, changesDetected |-> 0, violationsFound |-> 0,
                complianceScore |-> 100]

WatcherNext ==
  \/ \E s \in StartIds : StartBegins(s)
  \/ \E s \in StartIds : StartLoadsConfig(s)
  \/ \E s \in StartIds : StartLoadsPatterns(s)
  \/ \E s \in StartIds : StartOpens(s)
  \/ RawEvent
  \/ TimerFires
  \/ \E b \in BatchIds : CacheWrite(b)
  \/ \E b \in BatchIds : AnalysisReturns(b)
  \/ \E b \in BatchIds : PatternsUpdated(b)
  \/ \E b \in BatchIds : PatternsSaveFails(b)
  \/ \E b \in BatchIds : BatchCompletes(b)
  \/ \E s \in StopIds : StopBegins(s)
  \/ \E s \in StopIds : StopCloses(s)
  \/ \E s \in StopIds : StopCompletes(s)

\* ------------------------------------------------------------------ AnalysisStream
\* (src/src/streaming/analysisStream.ts)
\* Time is counted in minutes: 60000 ms is 1 and 300000 ms is 5.

\* calls of the stream's methods in one behaviour
MaxStreamCalls == 3
\* Date.now() runs over 0..MaxNow
MaxNow == 5
\* the maxStreamHistory values a caller passes are 1..MaxHistoryOption
MaxHistoryOption == 2

\* line 77: the default of maxStreamHistory
DefaultMaxStreamHistory == 1000
\* line 224: an event is recent while it is younger than five minutes
RecentWindow == 5
\* line 225: only the last fifty recent violation events are read
HotspotEvents == 50
\* line 279: the number of hotspots returned
TopHotspots == 10
\* line 458: a score change of this size is reported as an event
SignificantChange == 5
\* lines 516-517: the average intervals that separate the trends
FastInterval == 1
SlowInterval == 5
\* line 527: the score of the empty metrics
InitialScore == 100

Abs(x) == IF x < 0 THEN -x ELSE x

\* lines 73-80: the defaults, overlaid with the fields of the constructor's argument
DefaultOptions == [enableRealTimeReports |-> TRUE, maxStreamHistory |-> DefaultMaxStreamHistory]
Overlay(defaults, argument) ==
  [f \in DOMAIN defaults |-> IF f \in DOMAIN argument THEN argument[f] ELSE defaults[f]]
\* the arguments of the callers: the tests (streaming.test.ts:20) and a caller
\* that sets maxStreamHistory; the watcher's (fileWatcher.ts:105) gives the defaults
OptionArguments ==
  {[enableRealTimeReports |-> FALSE]}
  \cup {[enableRealTimeReports |-> FALSE, maxStreamHistory |-> n] : n \in 1..MaxHistoryOption}

\* lines 524-543
createEmptyMetrics(t) ==
  [timestamp |-> t, score |-> InitialScore, violationCount |-> 0, errorCount |-> 0,
   warningCount |-> 0, infoCount |-> 0, scoreChange |-> 0, violationChange |-> 0,
   analysisTime |-> 0]

\* the violation lists handed to the stream
StreamViolation(filePath, severity) == [filePath |-> filePath, severity |-> severity]
OneError == <<StreamViolation("/test.tsx", "error")>>
OneWarning == <<StreamViolation("/other.tsx", "warning")>>
Mixed == <<StreamViolation("/other.tsx", "info"), StreamViolation("/test.tsx", "error"),
           StreamViolation("/test.tsx", "warning"), StreamViolation("/test.tsx", "hint")>>
ManyFiles ==
  <<StreamViolation("/f01.tsx", "warning"), StreamViolation("/f02.tsx", "warning"),
    StreamViolation("/f03.tsx", "warning"), StreamViolation("/f04.tsx", "warning"),
    StreamViolation("/f05.tsx", "warning"), StreamViolation("/f06.tsx", "warning"),
    StreamViolation("/f07.tsx", "warning"), StreamViolation("/f08.tsx", "warning"),
    StreamViolation("/f09.tsx", "warning"), StreamViolation("/f10.tsx", "warning"),
    StreamViolation("/f11.tsx", "warning"), StreamViolation("/f11.tsx", "error")>>
ViolationLists == {Mixed, ManyFiles}

\* the DriftAnalysisResults handed to the stream, with the durations measured
StreamResult(complianceScore, violations, errors, warnings) ==
  [complianceScore |-> complianceScore, violations |-> violations,
   summary |-> [errors |-> errors, warnings |-> warnings]]
AnalysisInputs ==
  {[result |-> StreamResult(90, <<>>, 0, 0), duration |-> 100],
   [result |-> StreamResult(85, OneError, 1, 0), duration |-> 150],
   [result |-> StreamResult(97, OneWarning, 0, 1), duration |-> 100]}

\* lines 405-413; the data of an event is kept as the violations it carries
createEvent(counter, t, type, violations) ==
  [id |-> counter + 1, timestamp |-> t, type |-> type, violations |-> violations]

\* lines 418-423 and 451-455: push, then drop the oldest above the limit
addEvent(history, item, limit) ==
  LET pushed == Append(history, item)
  IN  IF Len(pushed) > limit THEN Tail(pushed) ELSE pushed

\* lines 430-449: the metrics of a result
keepScoreChange(previous, result, duration, t) ==
  [timestamp |-> t, score |-> result.complianceScore,
   violationCount |-> Len(result.violations), errorCount |-> result.summary.errors,
   warningCount |-> result.summary.warnings,
   infoCount |-> Len(result.violations) - result.summary.errors - result.summary.warnings,
   scoreChange |-> previous.scoreChange,
   violationChange |-> Len(result.violations) - previous.violationCount,
   analysisTime |-> duration]
metricsOf(previous, result, duration, t) ==
  [timestamp |-> t, score |-> result.complianceScore,
   violationCount |-> Len(result.violations), errorCount |-> result.summary.errors,
   warningCount |-> result.summary.warnings,
   infoCount |-> Len(result.violations) - result.summary.errors - result.summary.warnings,
   scoreChange |-> result.complianceScore - previous.score,
   violationChange |-> Len(result.violations) - previous.violationCount,
   analysisTime |-> duration]

\* lines 197-206: the getters return copies
getCurrentMetrics == currentMetrics
getMetricsHistory == metricsHistory

\* x.slice(-n)
LastN(list, n) ==
  IF Len(list) <= n THEN list ELSE SubSeq(list, Len(list) - n + 1, Len(list))
\* x.slice(0, n)
FirstN(list, n) == IF Len(list) <= n THEN list ELSE SubSeq(list, 1, n)

\* lines 235-236 and 251: the violations of the events, each with its event's timestamp
RECURSIVE Stamped(_)
Stamped(events) ==
  IF events = <<>> THEN <<>>
  ELSE LET e == Head(events)
       IN  [i \in 1..Len(e.violations) |->
              [filePath |-> e.violations[i].filePath, severity |-> e.violations[i].severity,
               timestamp |-> e.timestamp]]
           \o Stamped(Tail(events))

\* lines 238-247: the keys of fileViolations, in the order the Map received them
RECURSIVE FirstSeen(_)
FirstSeen(list) ==
  IF list = <<>> THEN <<>>
  ELSE LET front == FirstSeen(SubSeq(list, 1, Len(list) - 1))
           file == list[Len(list)].filePath
       IN  IF \E i \in DOMAIN front : front[i] = file THEN front ELSE Append(front, file)

\* lines 504-520 with the bound of 'decreasing' put at one minute
trendWithShortGap(timestamps) ==
  IF Len(timestamps) < 3 THEN "stable"
  ELSE LET recent == LastN(timestamps, 3)
           total == (recent[2] - recent[1]) + (recent[3] - recent[2])
       IN  IF total < 2 * FastInterval THEN "increasing"
           ELSE IF total > 2 * FastInterval THEN "decreasing"
           ELSE "stable"

\* lines 504-520
calculateTrendDirection(timestamps) ==
  IF Len(timestamps) < 3 THEN "stable"
  ELSE LET recent == LastN(timestamps, 3)
           total == (recent[2] - recent[1]) + (recent[3] - recent[2])
       IN  IF total < 2 * FastInterval THEN "increasing"
           ELSE IF total > 2 * SlowInterval THEN "decreasing"
           ELSE "stable"

\* lines 249-273: what the loop gathers for one file, as the entry of line 266
HotspotOf(list, file) ==
  LET of == SelectSeq(list, LAMBDA v : v.filePath = file)
      n(severities) == Len(SelectSeq(of, LAMBDA v : v.severity \in severities))
  IN  [filePath |-> file,
       violationCount |-> Len(of),
       severityBreakdown |->
         [error |-> n({"error"}), warning |-> n({"warning"}),
          info |-> Len(of) - n({"error", "warning"})],
       recentChanges |-> Len(of),
       trendDirection |-> calculateTrendDirection([i \in 1..Len(of) |-> of[i].timestamp])]

\* line 278: sort((a, b) => b.violationCount - a.violationCount), a stable sort
Unsorted(list) == list
RECURSIVE SortByCount(_)
SortByCount(list) ==
  IF list = <<>> THEN <<>>
  ELSE LET sorted == SortByCount(SubSeq(list, 1, Len(list) - 1))
           e == list[Len(list)]
           k == Cardinality({i \in DOMAIN sorted : sorted[i].violationCount >= e.violationCount})
       IN  SubSeq(sorted, 1, k) \o <<e>> \o SubSeq(sorted, k + 1, Len(sorted))

\* lines 223-225
RecentEvents(history, t) ==
  LastN(SelectSeq(history, LAMBDA e : e.type = "violation-detected"
                                       /\ t - e.timestamp < RecentWindow),
        HotspotEvents)

\* lines 221-280
getViolationHotspots(history, t) ==
  LET list == Stamped(RecentEvents(history, t))
      files == FirstSeen(list)
  IN  FirstN(SortByCount([i \in 1..Len(files) |-> HotspotOf(list, files[i])]), TopHotspots)

\* lines 107-122, on the fields it touches
stopAlways(s) ==
  [s EXCEPT !.isStreaming = FALSE, !.updateTimer = FALSE,
            !.emitted = [@ EXCEPT !["stream-stopped"] = @ + 1]]
stop(s) ==
  IF ~s.isStreaming THEN s
  ELSE [s EXCEPT !.isStreaming = FALSE, !.updateTimer = FALSE,
                 !.emitted = [@ EXCEPT !["stream-stopped"] = @ + 1]]

\* lines 88-102; emit runs the listener before start returns
start(s, reports, listener) ==
  IF s.isStreaming THEN s
  ELSE LET started == [s EXCEPT !.isStreaming = TRUE, !.eventCounter = 0,
                                !.updateTimer = reports,
                                !.emitted = [@ EXCEPT !["stream-started"] = @ + 1]]
       IN  IF listener = "stop" THEN stop(started) ELSE started

Lifecycle ==
  [isStreaming |-> isStreaming, updateTimer |-> updateTimer,
   eventCounter |-> eventCounter, emitted |-> emitted]

SetLifecycle(s) ==
  /\ isStreaming' = s.isStreaming
  /\ updateTimer' = s.updateTimer
  /\ eventCounter' = s.eventCounter
  /\ emitted' = s.emitted

NoStreamCall == [method |-> "none", streaming |-> FALSE, input |-> <<>>]

\* lines 63-83: a new AnalysisStream(argument)
FreshStream(argument) ==
  /\ options = Overlay(DefaultOptions, argument)
  /\ isStreaming = FALSE
  /\ updateTimer = FALSE
  /\ eventCounter = 0
  /\ eventHistory = <<>>
  /\ metricsHistory = <<>>
  /\ currentMetrics = createEmptyMetrics(0)
  /\ listeners = "none"
  /\ emitted = [e \in {"stream-started", "stream-stopped"} |-> 0]
  /\ now = 0
  /\ streamCalls = 0
  /\ processed = <<>>
  /\ lastStreamCall = NoStreamCall

StreamInit == FreshStream([enableRealTimeReports |-> TRUE])

\* lines 71-83: the stream is constructed with an argument
NewStream(argument) ==
  /\ streamCalls = 0
  /\ now = 0
  /\ listeners = "none"
  /\ options = DefaultOptions
  /\ options' = Overlay(DefaultOptions, argument)
  /\ UNCHANGED <<isStreaming, updateTimer, eventCounter, eventHistory, metricsHistory,
                 currentMetrics, listeners, emitted, now, streamCalls, processed,
                 lastStreamCall>>
  /\ UNCHANGED <<cacheVars, watchVars, driftVars, persistVars, overlapVars, chainVars, startVars, learnVars>>

\* streaming.test.ts:37-41: stream.on('stream-started', () => stream.stop())
OnStreamStarted ==
  /\ streamCalls = 0
  /\ listeners = "none"
  /\ listeners' = "stop"
  /\ UNCHANGED <<options, isStreaming, updateTimer, eventCounter, eventHistory,
                 metricsHistory, currentMetrics, emitted, now, streamCalls, processed,
                 lastStreamCall>>
  /\ UNCHANGED <<cacheVars, watchVars, driftVars, persistVars, overlapVars, chainVars, startVars, learnVars>>

\* the clock advances between calls
TimePasses ==
  /\ now < MaxNow
  /\ now' = now + 1
  /\ UNCHANGED <<options, isStreaming, updateTimer, eventCounter, eventHistory,
                 metricsHistory, currentMetrics, listeners, emitted, streamCalls, processed,
                 lastStreamCall>>
  /\ UNCHANGED <<cacheVars, watchVars, driftVars, persistVars, overlapVars, chainVars, startVars, learnVars>>

Called(method, input) ==
  /\ streamCalls < MaxStreamCalls
  /\ streamCalls' = streamCalls + 1
  /\ lastStreamCall' = [method |-> method, streaming |-> isStreaming, input |-> input]

\* lines 88-102
StreamStart ==
  /\ Called("start", <<>>)
  /\ SetLifecycle(start(Lifecycle, options.enableRealTimeReports, listeners))
  /\ UNCHANGED <<options, eventHistory, metricsHistory, currentMetrics, listeners, now,
                 processed>>
  /\ UNCHANGED <<cacheVars, watchVars, driftVars, persistVars, overlapVars, chainVars, startVars, learnVars>>

\* lines 107-122
StreamStop ==
  /\ Called("stop", <<>>)
  /\ SetLifecycle(stop(Lifecycle))
  /\ UNCHANGED <<options, eventHistory, metricsHistory, currentMetrics, listeners, now,
                 processed>>
  /\ UNCHANGED <<cacheVars, watchVars, driftVars, persistVars, overlapVars, chainVars, startVars, learnVars>>

\* lines 127-138
ProcessChanges ==
  /\ Called("processChanges", <<>>)
  /\ IF ~isStreaming
       THEN UNCHANGED <<eventCounter, eventHistory>>
       ELSE /\ eventCounter' = eventCounter + 1
            /\ eventHistory' = addEvent(eventHistory,
                                  createEvent(eventCounter, now, "change-detected", <<>>),
                                  options.maxStreamHistory)
  /\ UNCHANGED <<options, isStreaming, updateTimer, metricsHistory, currentMetrics,
                 listeners, emitted, now, processed>>
  /\ UNCHANGED <<cacheVars, watchVars, driftVars, persistVars, overlapVars, chainVars, startVars, learnVars>>

\* lines 165-177
ProcessViolations(violations) ==
  /\ Called("processViolations", violations)
  /\ IF ~isStreaming
       THEN UNCHANGED <<eventCounter, eventHistory>>
       ELSE /\ eventCounter' = eventCounter + 1
            /\ eventHistory' = addEvent(eventHistory,
                                  createEvent(eventCounter, now, "violation-detected", violations),
                                  options.maxStreamHistory)
  /\ UNCHANGED <<options, isStreaming, updateTimer, metricsHistory, currentMetrics,
                 listeners, emitted, now, processed>>
  /\ UNCHANGED <<cacheVars, watchVars, driftVars, persistVars, overlapVars, chainVars, startVars, learnVars>>

\* lines 143-160, with updateMetrics (429-468) and processViolations (165-177)
ProcessAnalysisResult(in) ==
  /\ Called("processAnalysisResult", in)
  /\ IF ~isStreaming
       THEN UNCHANGED <<eventCounter, eventHistory, metricsHistory, currentMetrics, processed>>
       ELSE LET limit == options.maxStreamHistory
                result == in.result
                metrics == metricsOf(currentMetrics, result, in.duration, now)
                significant == Abs(metrics.scoreChange) >= SignificantChange
                violating == Len(result.violations) > 0
                c1 == eventCounter + 1
                c2 == IF significant THEN c1 + 1 ELSE c1
                c3 == IF violating THEN c2 + 1 ELSE c2
                h1 == addEvent(eventHistory,
                               createEvent(eventCounter, now, "analysis-complete",
                                           result.violations), limit)
                h2 == IF significant
                        THEN addEvent(h1, createEvent(c1, now, "score-changed", <<>>), limit)
                        ELSE h1
                h3 == IF violating
                        THEN addEvent(h2, createEvent(c2, now, "violation-detected",
                                                      result.violations), limit)
                        ELSE h2
            IN  /\ currentMetrics' = metrics
                /\ metricsHistory' = addEvent(metricsHistory, metrics, limit)
                /\ eventHistory' = h3
                /\ eventCounter' = c3
                /\ processed' = Append(processed, metrics)
  /\ UNCHANGED <<options, isStreaming, updateTimer, listeners, emitted, now>>
  /\ UNCHANGED <<cacheVars, watchVars, driftVars, persistVars, overlapVars, chainVars, startVars, learnVars>>

StreamNext ==
  \/ \E argument \in OptionArguments : NewStream(argument)
  \/ OnStreamStarted
  \/ TimePasses
  \/ StreamStart
  \/ StreamStop
  \/ ProcessChanges
  \/ \E violations \in ViolationLists : ProcessViolations(violations)
  \/ \E in \in AnalysisInputs : ProcessAnalysisResult(in)

\* ------------------------------------------------------------------ persisted cache
\* (saveCache, loadCache, clearCache and validateCache of
\* src/src/performance/incrementalAnalyzer.ts).  Time is counted in days.  One of the four operations is in progress at a time.

\* Date.now() runs over 0..MaxClock
MaxClock == 2
\* saveCache, loadCache, clearCache and validateCache calls in one behaviour
MaxPersistCalls == 2

\* line 334: maxAge, 24 hours
MaxAge == 1

NoFile == [kind |-> "none"]
\* a file that is being written, or that is not JSON
PartialFile == [kind |-> "partial"]

\* the three maps of the analyzer
Memory ==
  [fileHashes |-> fileHashes, analysisCache |-> analysisCache,
   dependencyGraph |-> dependencyGraph]
EmptyMemory == [fileHashes |-> EmptyMap, analysisCache |-> EmptyMap, dependencyGraph |-> EmptyMap]

SetMemory(m) ==
  /\ fileHashes' = m.fileHashes
  /\ analysisCache' = m.analysisCache
  /\ dependencyGraph' = m.dependencyGraph

\* Array.from(set)
RECURSIVE ArrayFrom(_)
ArrayFrom(S) ==
  IF S = {} THEN <<>>
  ELSE LET x == CHOOSE y \in S : TRUE IN <<x>> \o ArrayFrom(S \ {x})

\* new Set(array)
SetFrom(array) == {array[i] : i \in DOMAIN array}

\* lines 315-316: Array.from(map.entries()), the [key, value] pairs of the map
Entries(map) ==
  LET keys == ArrayFrom(DOMAIN map)
  IN  [i \in 1..Len(keys) |-> <<keys[i], map[keys[i]]>>]

\* lines 339-340: new Map(entries); a later pair replaces an earlier one of its key
RECURSIVE MapFrom(_)
MapFrom(entries) ==
  IF entries = <<>> THEN EmptyMap
  ELSE LET last == entries[Len(entries)]
       IN  MapSet(MapFrom(SubSeq(entries, 1, Len(entries) - 1)), last[1], last[2])

\* line 317: the graph's entries, each set of dependents as an array
GraphEntries(graph) ==
  LET entries == Entries(graph)
  IN  [i \in DOMAIN entries |-> <<entries[i][1], ArrayFrom(entries[i][2])>>]

\* lines 341-343
GraphFrom(entries) ==
  MapFrom([i \in DOMAIN entries |-> <<entries[i][1], SetFrom(entries[i][2])>>])

\* lines 314-319: cacheData; FileHash and CachedAnalysis values are plain data
\* and pass through JSON unchanged
cacheData(m, t) ==
  [kind |-> "document",
   fileHashes |-> Entries(m.fileHashes),
   analysisCache |-> Entries(m.analysisCache),
   dependencyGraph |-> GraphEntries(m.dependencyGraph),
   timestamp |-> t]

\* lines 339-343: the three maps built from a document
keepMemory(m, document) == m
restore(m, document) ==
  [fileHashes |-> MapFrom(document.fileHashes),
   analysisCache |-> MapFrom(document.analysisCache),
   dependencyGraph |-> GraphFrom(document.dependencyGraph)]

\* lines 334-338: the document is too old
IsStale(document, t) == t - document.timestamp > MaxAge

\* lines 73-119: what analyzeChangedFiles([p]) leaves of the three maps when it
\* runs from entry to return on a file with content c and mtime mt
analysed(m, p, c, mt) ==
  LET cur == calculateFileHash(p, c, mt)
      r == analyzeFile(p, c)
      entry == [result |-> r, hash |-> cur.hash,
                timestamp |-> Cardinality(DOMAIN m.analysisCache) + 1,
                dependencies |-> extractDependencies(r)]
      graph == updateDependencyGraph(m.dependencyGraph, p, r)
      cache == RankTimestamps(invalidateDependents(MapSet(m.analysisCache, p, entry), graph, p))
      kept == cleanupCache(cache, MapSet(m.fileHashes, p, cur))
  IN  [fileHashes |-> kept.hashes, analysisCache |-> RankTimestamps(kept.cache),
       dependencyGraph |-> graph]

\* the memories an earlier process saved: a.tsx importing b.tsx, and both files
MemoryOfOne == analysed(EmptyMemory, "a.tsx", 2, 1)
MemoryOfTwo == analysed(MemoryOfOne, "b.tsx", 1, 1)
EarlierMemories == {MemoryOfTwo}

IdlePersist == [op |-> "none", pc |-> "none", data |-> NoFile, todo |-> {}, invalid |-> {}]
NoLoad == [outcome |-> "none", replaced |-> FALSE, saved |-> FALSE]

PersistInit ==
  /\ cacheFile = NoFile
  /\ clock = 0
  /\ persistCalls = 0
  /\ persistPc = IdlePersist
  /\ lastSaved = NoFile
  /\ lastLoad = NoLoad

PersistCalled ==
  /\ persistPc = IdlePersist
  /\ persistCalls < MaxPersistCalls
  /\ persistCalls' = persistCalls + 1

\* an earlier process left its document, or something that is not JSON
EarlierDocument ==
  /\ persistCalls = 0
  /\ cacheFile = NoFile
  /\ \/ \E m \in EarlierMemories : cacheFile' = cacheData(m, clock)
     \/ cacheFile' = PartialFile
  /\ UNCHANGED <<clock, persistCalls, persistPc, lastSaved, lastLoad>>
  /\ UNCHANGED <<cacheVars, watchVars, driftVars, streamVars, overlapVars, chainVars, startVars, learnVars>>

DayPasses ==
  /\ clock < MaxClock
  /\ clock' = clock + 1
  /\ UNCHANGED <<cacheFile, persistCalls, persistPc, lastSaved, lastLoad>>
  /\ UNCHANGED <<cacheVars, watchVars, driftVars, streamVars, overlapVars, chainVars, startVars, learnVars>>

\* lines 309-311: saveCache is entered, await fs.ensureDir
SaveBegins ==
  /\ PersistCalled
  /\ persistPc' = [IdlePersist EXCEPT !.op = "saveCache", !.pc = "ensureDir"]
  /\ UNCHANGED <<cacheFile, clock, lastSaved, lastLoad>>
  /\ UNCHANGED <<cacheVars, watchVars, driftVars, streamVars, overlapVars, chainVars, startVars, learnVars>>

\* lines 313-320: cacheData is built and fs.writeJson starts to write the file
SaveWrites ==
  /\ persistPc.op = "saveCache"
  /\ persistPc.pc = "ensureDir"
  /\ persistPc' = [persistPc EXCEPT !.pc = "writeJson", !.data = cacheData(Memory, clock)]
  /\ cacheFile' = PartialFile
  /\ lastSaved' = [kind |-> "saved", memory |-> Memory, document |-> cacheData(Memory, clock)]
  /\ UNCHANGED <<clock, persistCalls, lastLoad>>
  /\ UNCHANGED <<cacheVars, watchVars, driftVars, streamVars, overlapVars, chainVars, startVars, learnVars>>

\* lines 320-321: fs.writeJson is done, saveCache returns
SaveCompletes ==
  /\ persistPc.op = "saveCache"
  /\ persistPc.pc = "writeJson"
  /\ cacheFile' = persistPc.data
  /\ persistPc' = IdlePersist
  /\ UNCHANGED <<clock, persistCalls, lastSaved, lastLoad>>
  /\ UNCHANGED <<cacheVars, watchVars, driftVars, streamVars, overlapVars, chainVars, startVars, learnVars>>

\* the file is the document the last saveCache wrote
SavedDocument == lastSaved.kind = "saved" /\ cacheFile = lastSaved.document

\* lines 326-330: loadCache is entered, await fs.pathExists
LoadBegins ==
  /\ PersistCalled
  /\ IF cacheFile = NoFile
       THEN /\ persistPc' = IdlePersist
            /\ lastLoad' = [outcome |-> "absent", replaced |-> FALSE, saved |-> FALSE]
       ELSE /\ persistPc' = [IdlePersist EXCEPT !.op = "loadCache", !.pc = "readJson"]
            /\ UNCHANGED lastLoad
  /\ UNCHANGED <<cacheFile, clock, lastSaved>>
  /\ UNCHANGED <<cacheVars, watchVars, driftVars, streamVars, overlapVars, chainVars, startVars, learnVars>>

\* lines 331-351: await fs.readJson, then the age test and the three maps; a
\* file that does not parse raises, and the catch clears the cache
LoadReads ==
  /\ persistPc.op = "loadCache"
  /\ persistPc.pc = "readJson"
  /\ persistPc' = IdlePersist
  /\ IF cacheFile.kind # "document"
       THEN /\ SetMemory(EmptyMemory)
            /\ lastLoad' = [outcome |-> "failed", replaced |-> Memory # EmptyMemory,
                             saved |-> SavedDocument]
       ELSE IF IsStale(cacheFile, clock)
         THEN /\ UNCHANGED <<fileHashes, analysisCache, dependencyGraph>>
              /\ lastLoad' = [outcome |-> "stale", replaced |-> FALSE, saved |-> SavedDocument]
         ELSE /\ SetMemory(restore(Memory, cacheFile))
              /\ lastLoad' = [outcome |-> "loaded",
                             replaced |-> Memory # restore(Memory, cacheFile),
                             saved |-> SavedDocument]
  /\ UNCHANGED <<disk, mtime, edits, call, ncalls>>
  /\ UNCHANGED <<cacheFile, clock, persistCalls, lastSaved>>
  /\ UNCHANGED <<watchVars, driftVars, streamVars, overlapVars, chainVars, startVars, learnVars>>

\* lines 52-122: a component file is saved with new bytes and
\* analyzeChangedFiles([p]) runs on it from entry to return
AnalyzeOneFile ==
  /\ call.pc = "idle"
  /\ ncalls < MaxCalls
  /\ ncalls' = ncalls + 1
  /\ \E p \in ComponentPaths, c \in Contents :
       /\ disk[p] # c
       /\ disk' = [disk EXCEPT ![p] = c]
       /\ mtime' = [mtime EXCEPT ![p] = NextMtime(@)]
       /\ SetMemory(analysed(Memory, p, c, NextMtime(mtime[p])))
  /\ UNCHANGED <<edits, call>>
  /\ UNCHANGED <<watchVars, driftVars, streamVars, persistVars, overlapVars, chainVars, startVars, learnVars>>

\* lines 57-71 and 119: what analyzeChangedFiles([p]) leaves of the three maps
\* when the file at p is gone
removed(m, p) ==
  IF ~MapHas(m.analysisCache, p) THEN m
  ELSE LET cache == RankTimestamps(
                      invalidateDependents(MapDelete(m.analysisCache, p), m.dependencyGraph, p))
           kept == cleanupCache(cache, MapDelete(m.fileHashes, p))
       IN  [fileHashes |-> kept.hashes, analysisCache |-> RankTimestamps(kept.cache),
            dependencyGraph |-> m.dependencyGraph]

\* lines 52-122: a cached component file is deleted and analyzeChangedFiles([p])
\* runs from entry to return
RemoveOneFile ==
  /\ call.pc = "idle"
  /\ ncalls < MaxCalls
  /\ ncalls' = ncalls + 1
  /\ \E p \in ComponentPaths :
       /\ disk[p] # Absent
       /\ MapHas(analysisCache, p)
       /\ disk' = [disk EXCEPT ![p] = Absent]
       /\ SetMemory(removed(Memory, p))
  /\ UNCHANGED <<mtime, edits, call>>
  /\ UNCHANGED <<watchVars, driftVars, streamVars, persistVars, overlapVars, chainVars, startVars, learnVars>>

\* lines 300-304
ClearCache ==
  /\ PersistCalled
  /\ SetMemory(EmptyMemory)
  /\ UNCHANGED <<disk, mtime, edits, call, ncalls>>
  /\ UNCHANGED <<cacheFile, clock, persistPc, lastSaved, lastLoad>>
  /\ UNCHANGED <<watchVars, driftVars, streamVars, overlapVars, chainVars, startVars, learnVars>>

\* lines 357-361: validateCache is entered; the loop visits the cached paths
ValidateBegins ==
  /\ PersistCalled
  /\ persistPc' = [IdlePersist EXCEPT !.op = "validateCache", !.pc = "loop",
                                      !.todo = DOMAIN analysisCache]
  /\ UNCHANGED <<cacheFile, clock, lastSaved, lastLoad>>
  /\ UNCHANGED <<cacheVars, watchVars, driftVars, streamVars, overlapVars, chainVars, startVars, learnVars>>

\* lines 361-376: one path; fs.pathExists and calculateFileHash are taken as one
\* read of the file
ValidateEntry ==
  /\ persistPc.op = "validateCache"
  /\ persistPc.todo # {}
  /\ \E p \in persistPc.todo :
       LET valid == /\ disk[p] # Absent
                    /\ MapHas(analysisCache, p)
                    /\ calculateFileHash(p, disk[p], mtime[p]).hash = analysisCache[p].hash
       IN  persistPc' = [persistPc EXCEPT !.todo = @ \ {p},
                                          !.invalid = IF valid THEN @ ELSE @ \cup {p}]
  /\ UNCHANGED <<cacheFile, clock, persistCalls, lastSaved, lastLoad>>
  /\ UNCHANGED <<cacheVars, watchVars, driftVars, streamVars, overlapVars, chainVars, startVars, learnVars>>

\* lines 378-384: the invalid paths lose entry and hash; validateCache returns
ValidateRemoves ==
  /\ persistPc.op = "validateCache"
  /\ persistPc.todo = {}
  /\ persistPc' = IdlePersist
  /\ analysisCache' = [p \in (DOMAIN analysisCache) \ persistPc.invalid |-> analysisCache[p]]
  /\ fileHashes' = [p \in (DOMAIN fileHashes) \ persistPc.invalid |-> fileHashes[p]]
  /\ UNCHANGED <<disk, mtime, edits, dependencyGraph, call, ncalls>>
  /\ UNCHANGED <<cacheFile, clock, persistCalls, lastSaved, lastLoad>>
  /\ UNCHANGED <<watchVars, driftVars, streamVars, overlapVars, chainVars, startVars, learnVars>>

PersistNext ==
  \/ EarlierDocument
  \/ DayPasses
  \/ SaveBegins
  \/ SaveWrites
  \/ SaveCompletes
  \/ LoadBegins
  \/ LoadReads
  \/ ClearCache
  \/ ValidateBegins
  \/ ValidateEntry
  \/ ValidateRemoves
  \/ AnalyzeOneFile
  \/ RemoveOneFile

\* ================================================================== overlapping analyzeChangedFiles calls
\* processPendingChanges is entered from every timer callback and is never
\* awaited (fileWatcher.ts lines 281-284, 293-305): a second call of
\* analyzeChangedFiles can be entered while the first is at one of its awaits.
\* Each call below has a list of one path.
\* analyzeChangedFiles calls in progress at the same time
MaxInflight == 2
CallIds == 1..MaxInflight
NoCall == [pc |-> "idle", path |-> "", currentHash |-> NoHash, isNew |-> FALSE, result |-> NoResult]

\* analyzeChangedFiles([p]) is entered, up to the await of fs.pathExists
OverlapStart(k) ==
  /\ inflight[k].pc = "idle"
  /\ \A j \in CallIds : j < k => inflight[j].pc # "idle"
  /\ \E p \in ComponentPaths :
       inflight' = [inflight EXCEPT ![k] = [NoCall EXCEPT !.pc = "exists", !.path = p]]
  /\ UNCHANGED <<latestRead, cacheVars>>
  /\ UNCHANGED <<watchVars, driftVars, streamVars, persistVars, chainVars, startVars, learnVars>>

\* lines 57-71 of call k
OverlapExists(k) ==
  /\ inflight[k].pc = "exists"
  /\ LET p == inflight[k].path IN
     IF disk[p] # Absent
       THEN /\ inflight' = [inflight EXCEPT ![k].pc = "hash"]
            /\ UNCHANGED <<fileHashes, analysisCache>>
       ELSE /\ inflight' = [inflight EXCEPT ![k].pc = "cleanup"]
            /\ IF MapHas(analysisCache, p)
                 THEN /\ fileHashes' = MapDelete(fileHashes, p)
                      /\ analysisCache' =
                           RankTimestamps(invalidateDependents(MapDelete(analysisCache, p), dependencyGraph, p))
                 ELSE UNCHANGED <<fileHashes, analysisCache>>
  /\ UNCHANGED <<latestRead, disk, mtime, edits, dependencyGraph, call, ncalls>>
  /\ UNCHANGED <<watchVars, driftVars, streamVars, persistVars, chainVars, startVars, learnVars>>

\* lines 74-84 of call k
OverlapHash(k) ==
  /\ inflight[k].pc = "hash"
  /\ LET p == inflight[k].path
         cur == calculateFileHash(p, disk[p], mtime[p])
     IN  IF disk[p] = Absent
           THEN /\ inflight' = [inflight EXCEPT ![k].pc = "rejected"]
                /\ UNCHANGED latestRead
           ELSE /\ latestRead' = [latestRead EXCEPT ![p] = disk[p]]
                /\ IF SameContent(fileHashes, p, cur)
                     THEN inflight' = [inflight EXCEPT ![k].pc = "cleanup"]
                     ELSE inflight' = [inflight EXCEPT ![k].pc = "extract", ![k].currentHash = cur,
                                                       ![k].isNew = ~MapHas(fileHashes, p)]
  /\ UNCHANGED cacheVars
  /\ UNCHANGED <<watchVars, driftVars, streamVars, persistVars, chainVars, startVars, learnVars>>

\* line 88 of call k: the parser reads the file as it is now
OverlapExtract(k) ==
  /\ inflight[k].pc = "extract"
  /\ inflight' = [inflight EXCEPT ![k].pc = "commit",
                                  ![k].result = analyzeFile(inflight[k].path, disk[inflight[k].path])]
  /\ UNCHANGED <<latestRead, cacheVars>>
  /\ UNCHANGED <<watchVars, driftVars, streamVars, persistVars, chainVars, startVars, learnVars>>

\* lines 90-111 of call k
OverlapCommit(k) ==
  /\ inflight[k].pc = "commit"
  /\ LET p == inflight[k].path
         r == inflight[k].result
         entry == [result |-> r, hash |-> inflight[k].currentHash.hash,
                   timestamp |-> Cardinality(DOMAIN analysisCache) + 1,
                   dependencies |-> extractDependencies(r)]
         graph == updateDependencyGraph(dependencyGraph, p, r)
     IN  /\ fileHashes' = MapSet(fileHashes, p, inflight[k].currentHash)
         /\ dependencyGraph' = graph
         /\ analysisCache' =
              RankTimestamps(invalidateDependents(MapSet(analysisCache, p, entry), graph, p))
  /\ inflight' = [inflight EXCEPT ![k].pc = "cleanup"]
  /\ UNCHANGED <<latestRead, disk, mtime, edits, call, ncalls>>
  /\ UNCHANGED <<watchVars, driftVars, streamVars, persistVars, chainVars, startVars, learnVars>>

\* lines 119-121 of call k
OverlapCleanup(k) ==
  /\ inflight[k].pc = "cleanup"
  /\ LET c == cleanupCache(analysisCache, fileHashes) IN
       /\ analysisCache' = RankTimestamps(c.cache)
       /\ fileHashes' = c.hashes
  /\ inflight' = [inflight EXCEPT ![k].pc = "done"]
  /\ UNCHANGED <<latestRead, disk, mtime, edits, dependencyGraph, call, ncalls>>
  /\ UNCHANGED <<watchVars, driftVars, streamVars, persistVars, chainVars, startVars, learnVars>>

OverlapInit ==
  /\ inflight = [k \in CallIds |-> NoCall]
  /\ latestRead = [p \in ComponentPaths |-> Absent]

OverlapNext ==
  \/ \E k \in CallIds : OverlapStart(k)
  \/ \E k \in CallIds : OverlapExists(k)
  \/ \E k \in CallIds : OverlapHash(k)
  \/ \E k \in CallIds : OverlapExtract(k)
  \/ \E k \in CallIds : OverlapCommit(k)
  \/ \E k \in CallIds : OverlapCleanup(k)
  \/ WriteFile
  \/ DeleteFile

\* ================================================================== analyzer of a dependency chain
\* An IncrementalAnalyzer over three component files that can import each
\* other one by one, so that a path can depend on another through a chain.
\* One analyzeChangedFiles call at a time, its files unchanged while it runs:
\* one loop iteration is one step.
\* analyzeChangedFiles calls of the chain analyzer in one behaviour
MaxChainCalls == 2
ChainPaths == {"p.tsx", "d.tsx", "x.tsx"}

\* what the bytes of a file import: content number -> the imported paths
ChainImports ==
  [f \in ChainPaths |->
     CASE f = "p.tsx" -> <<{}, {"d.tsx"}, {"x.tsx"}, {"d.tsx", "x.tsx"}>>
       [] f = "d.tsx" -> <<{}, {"p.tsx"}, {"x.tsx"}, {"p.tsx", "x.tsx"}>>
       [] f = "x.tsx" -> <<{}, {"p.tsx"}, {"d.tsx"}, {"p.tsx", "d.tsx"}>>]
ChainContents == 1..4

\* parseReactComponent on such a file
chainResult(f, c) == [success |-> TRUE, errorType |-> "none", dependencies |-> ChainImports[f][c]]

NoStep == [kind |-> "none", path |-> "", dropped |-> {}]
ChainIdle ==
  [fileHashes |-> EmptyMap, analysisCache |-> EmptyMap, dependencyGraph |-> EmptyMap,
   pc |-> "idle", visited |-> {}, ncalls |-> 0, last |-> NoStep]

\* analyzeChangedFiles(changedPaths) is entered
ChainStart ==
  /\ chain.pc = "idle"
  /\ chain.ncalls < MaxChainCalls
  /\ chain' = [chain EXCEPT !.pc = "loop", !.visited = {}, !.ncalls = @ + 1, !.last = NoStep]
  /\ UNCHANGED <<cacheVars, watchVars, driftVars, streamVars, persistVars, overlapVars, startVars, learnVars>>

\* lines 73-111, one iteration of the loop on a file f that holds content c:
\* skipped when the hash is the stored one, committed otherwise
ChainVisit ==
  /\ chain.pc = "loop"
  /\ \E f \in ChainPaths \ chain.visited, c \in ChainContents :
       LET cur == calculateFileHash(f, c, 0)
           r == chainResult(f, c)
           entry == [result |-> r, hash |-> cur.hash,
                     timestamp |-> Cardinality(DOMAIN chain.analysisCache) + 1,
                     dependencies |-> extractDependencies(r)]
           graph == updateDependencyGraph(chain.dependencyGraph, f, r)
           cache == invalidateDependents(MapSet(chain.analysisCache, f, entry), graph, f)
       IN  IF SameContent(chain.fileHashes, f, cur)
             THEN chain' = [chain EXCEPT !.visited = @ \cup {f},
                                         !.last = [kind |-> "unchanged", path |-> f, dropped |-> {}]]
             ELSE chain' = [chain EXCEPT
                     !.visited = @ \cup {f},
                     !.fileHashes = MapSet(@, f, cur),
                     !.dependencyGraph = graph,
                     !.analysisCache = RankTimestamps(cache),
                     !.last = [kind |-> "commit", path |-> f,
                               dropped |-> (DOMAIN chain.analysisCache) \ DOMAIN cache]]
  /\ UNCHANGED <<cacheVars, watchVars, driftVars, streamVars, persistVars, overlapVars, startVars, learnVars>>

\* lines 119-121: cleanupCache, return
ChainCleanup ==
  /\ chain.pc = "loop"
  /\ LET c == cleanupCache(chain.analysisCache, chain.fileHashes) IN
       chain' = [chain EXCEPT
                   !.pc = "idle",
                   !.analysisCache = RankTimestamps(c.cache),
                   !.fileHashes = c.hashes,
                   !.last = [kind |-> "cleanup", path |-> "",
                             dropped |-> (DOMAIN chain.analysisCache) \ DOMAIN c.cache]]
  /\ UNCHANGED <<cacheVars, watchVars, driftVars, streamVars, persistVars, overlapVars, startVars, learnVars>>

ChainNext ==
  \/ ChainStart
  \/ ChainVisit
  \/ ChainCleanup

ChainInit == chain = ChainIdle

\* ================================================================== FileWatcher: start and patterns
StartInit ==
  /\ starts = [s \in StartIds |-> "idle"]
  /\ leakedWatchers = 0
  /\ thisPatterns = NoPatterns
  /\ analyzerPatterns = NoPatterns
  /\ storedPatterns = NoPatterns

\* ================================================================== PatternExtractor
\* spacing values in the styles handed to detectSpacingGrid
MaxSpacings == 3

\* the spacing strings that occur in the styles
SpacingStrings == {"0", "auto", "4px", "6px", "8px", "16px", "24px", "1rem"}

\* PatternExtractor.parseSpacingValue: pixels, rem and em times 16, or parseInt
extractorParseSpacingValue(value) ==
  CASE value = "0" -> 0
    [] value = "auto" -> Null
    [] value = "4px" -> 4
    [] value = "6px" -> 6
    [] value = "8px" -> 8
    [] value = "16px" -> 16
    [] value = "24px" -> 24
    [] value = "1rem" -> 16

\* lines 109-120: the positive pixel values, in the order of the styles
allSpacingOf(strings) ==
  LET px == [i \in DOMAIN strings |-> extractorParseSpacingValue(strings[i])]
  IN  SelectSeq(px, LAMBDA v : v # Null /\ v > 0)

\* the gcd of findGCD
RECURSIVE gcd(_, _)
gcd(a, b) == IF b = 0 THEN a ELSE gcd(b, a % b)

\* findGCD: numbers.reduce((acc, num) => gcd(acc, num))
RECURSIVE findGCD(_)
findGCD(numbers) ==
  IF numbers = <<>> THEN 1
  ELSE IF Len(numbers) = 1 THEN numbers[1]
  ELSE gcd(findGCD(SubSeq(numbers, 1, Len(numbers) - 1)), numbers[Len(numbers)])

\* line 130
commonUnits == <<4, 8, 16>>

\* lines 131-139: the first common unit that divides the gcd or is divided by it
RECURSIVE bestUnitOf(_, _)
bestUnitOf(g, units) ==
  IF units = <<>> THEN g
  ELSE IF g % Head(units) = 0 \/ Head(units) % g = 0 THEN Head(units)
  ELSE bestUnitOf(g, Tail(units))

\* detectSpacingGrid
detectSpacingGrid(strings) ==
  LET allSpacing == allSpacingOf(strings)
      bestUnit == bestUnitOf(findGCD(allSpacing), commonUnits)
      fittingValues == SelectSeq(allSpacing, LAMBDA v : v % bestUnit = 0)
  IN  IF allSpacing = <<>> THEN [unit |-> 8, values |-> {}, confidence |-> 0]
      ELSE [unit |-> bestUnit,
            values |-> {fittingValues[i] : i \in DOMAIN fittingValues},
            confidence |-> MathRound(Len(fittingValues) * 100, Len(allSpacing))]

\* extractPatterns, line 65: the styles of the analysis hold one more spacing value
ObserveSpacing ==
  /\ Len(extracted.spacing) < MaxSpacings
  /\ \E value \in SpacingStrings :
       LET spacing == Append(extracted.spacing, value)
       IN  extracted' = [spacing |-> spacing, grid |-> detectSpacingGrid(spacing)]
  /\ UNCHANGED <<cacheVars, watchVars, driftVars, streamVars, persistVars, overlapVars, chainVars, startVars>>

LearnInit == extracted = [spacing |-> <<>>, grid |-> detectSpacingGrid(<<>>)]

LearnNext == ObserveSpacing

Init ==
  /\ CacheInit /\ WatcherInit /\ DriftInit /\ StreamInit /\ PersistInit
  /\ OverlapInit /\ ChainInit /\ StartInit /\ LearnInit

\* The cache alone, driven by arbitrary batches; the watcher stays as constructed.
SpecCache == Init /\ [][CacheNext]_vars

\* The watcher alone; what analyzeChangedFiles returns is left open.
SpecWatcher == Init /\ [][WatcherNext]_vars

\* The drift evaluator alone, on analyses put together from extractor results.
SpecDrift == Init /\ [][DriftNext]_vars

\* calculateComplianceScore alone, on growing file counts and violation lists.
SpecScore == Init /\ [][ScoreNext]_vars

\* the AnalysisStream and its callers
SpecStream == Init /\ [][StreamNext]_vars

\* the persisted cache
SpecPersist == Init /\ [][PersistNext]_vars

\* two analyzeChangedFiles calls that can overlap, and the editor
SpecOverlap == Init /\ [][OverlapNext]_vars

\* the analyzer of three files that import each other
SpecChain == Init /\ [][ChainNext]_vars

\* detectSpacingGrid on growing lists of spacing values
SpecLearn == Init /\ [][LearnNext]_vars

\* ================================================================== properties of the cache

\* the step of analyzeChangedFiles that is taken from the current state
CallSteps == call' # call

\* C1: Unchanged-content idempotence.  When analyzeChangedFiles reaches a path
\* whose bytes on disk hash to the hash stored for it, whatever its mtime, the
\* path is not handed to an extractor, no change is reported for it and the
\* hash map, the analysis cache and the dependency graph stay as they are.
C1_UnchangedContentIsSkipped ==
  [][(/\ call.pc = "hash"
      /\ disk[CurrentPath] # Absent
      /\ MapHas(fileHashes, CurrentPath)
      /\ fileHashes[CurrentPath].hash = Sha256(disk[CurrentPath])
      /\ CallSteps)
     => (/\ call'.pc # "extract"
         /\ call'.changes = call.changes
         /\ UNCHANGED <<fileHashes, analysisCache, dependencyGraph>>)]_vars

\* a touched file (same bytes, another mtime than the stored one) was skipped
C1_Witness ==
  /\ call.last = "unchanged"
  /\ MapHas(fileHashes, call.lastPath)
  /\ fileHashes[call.lastPath].hash = Sha256(disk[call.lastPath])
  /\ fileHashes[call.lastPath].timestamp # mtime[call.lastPath]

Invalidated(p) == MapHas(fileHashes, p) /\ ~MapHas(analysisCache, p)

C4_DependentsAreInvalidated ==
  [][(call.pc = "commit" /\ CallSteps)
     => \A B \in DOMAIN analysisCache :
          (B # CurrentPath /\ CurrentPath \in analysisCache[B].dependencies)
          => ~MapHas(analysisCache', B)]_vars

\* a commit of A has just removed the entry of a path that depends on A
C4_Witness ==
  /\ call.last = "committed"
  /\ MapHas(dependencyGraph, call.lastPath)
  /\ \E B \in dependencyGraph[call.lastPath] : B # call.lastPath /\ Invalidated(B)

\* C5: When the extractor fails for a path (it raises, or it returns a Failure
\* result), no change is reported for the path and the hash and the cache
\* entry stored for it stay exactly as they were.
C5_FailureWritesNothing ==
  [][(/\ CallSteps
      /\ \/ call.pc = "extract" /\ analyzeFileThrows(CurrentPath)
         \/ call.pc = "commit" /\ ~call.result.success)
     => (/\ call'.changes = call.changes
         /\ UNCHANGED <<fileHashes, analysisCache>>)]_vars

\* p is in no edge of the dependency graph
InNoEdge(graph, p) == ~MapHas(graph, p) /\ \A d \in DOMAIN graph : p \notin graph[d]

C14_EvictionBound ==
  call.pc = "done" => memoryUsage(analysisCache) <= MaxCacheSize

\* a call has returned whose cleanup pass found the cache over budget and
\* evicted entries
C14_Witness ==
  /\ call.pc = "done"
  /\ call.last = "evicted"
  /\ analysisCache # EmptyMap

\* hashing (fs.stat, fs.readFile) or extracting the current path raises
FailsAtCurrentPath ==
  \/ call.pc = "hash" /\ disk[CurrentPath] = Absent
  \/ call.pc = "extract" /\ analyzeFileThrows(CurrentPath)

\* C15: No single file's failure aborts a batch.  When hashing, reading or
\* extracting one path raises and other paths of the batch are still to come,
\* analyzeChangedFiles goes on with the next path and keeps the changes
\* computed so far.
C15_FailureDoesNotAbort ==
  [][(FailsAtCurrentPath /\ call.i < Len(call.files) /\ CallSteps)
     => (/\ call'.pc = "exists"
         /\ call'.i = call.i + 1
         /\ call'.changes = call.changes)]_vars

\* ================================================================== properties of the watcher

\* C7: Debounce coalescing.  The raw events of one burst on a path (each
\* arriving while the timer of the previous one is still running) hand the
\* path to analysis exactly once, whatever happens on other paths.
C7_OneSettlePerBurst ==
  \A p \in WatchedPaths :
    /\ handed[p] <= 1
    /\ burst[p] = "settled" => handed[p] = 1

\* C8: A path enters a batch only when its own timer has elapsed: no path of
\* a batch that is just taken has a timer that is still running.
C8_OnlySettledPathsInBatch ==
  [][\A b \in BatchIds :
       (batch[b].pc = "none" /\ batch'[b].pc = "analyze")
       => \A p \in batch'[b].files : ~TimerArmed(debounceTimers', p)]_vars

\* C9: No two batches are in analyzeChangedFiles (their commit phase) at the
\* same time.
C9_OneBatchAtATime ==
  \A b1, b2 \in BatchIds :
    (batch[b1].pc = "analyze" /\ batch[b2].pc = "analyze") => b1 = b2

\* stopWatching has run to its end and no new session has started
Stopped ==
  /\ ~isWatching
  /\ \A s \in StopIds : stopPc[s] = "idle"
  /\ \E s \in StartIds : starts[s] = "done"
  /\ \A s \in StartIds : starts[s] \in {"idle", "done"}

\* C10: stop() flushes pending work: when stop() has completed, no path with a
\* recorded raw event is left that was not handed to analysis.
C10_StopFlushesPending == Stopped => pendingChanges = {}

\* saveCache of some stopWatching invocation is being awaited
Saving == \E s \in StopIds : stopPc[s] = "saving"
\* an analyzeChangedFiles call of the watcher is in progress
Analyzing == \E b \in BatchIds : batch[b].pc = "analyze"
\* the step is a cache write of the analyzeChangedFiles call of batch b
CommitStep(b) ==
  /\ batch[b].pc = "analyze"
  /\ batch'[b].pc = "analyze"
  /\ batch'[b].writes = batch[b].writes + 1

\* C11: Stopping lets an in-flight batch finish its commit phase before the
\* cache is persisted: saveCache is never awaited while an analyzeChangedFiles
\* call is in progress, and once stop() has completed no call writes the cache.
C11_SaveAfterCommitPhase ==
  [][(/\ (Saving' => ~Analyzing')
      /\ (Stopped => \A b \in BatchIds : ~CommitStep(b)))]_vars

\* a stopWatching invocation is between line 196 and line 224
Stopping(s) == stopPc[s] # "idle"

\* C12: stop() is idempotent.  A stop() issued while another stop() is still
\* in progress performs no shutdown step: it starts no watcher close and no
\* cache save.  (A stop() issued after the first has completed finds
\* isWatching false and returns at line 196.)
C12_SecondStopDoesNothing ==
  [][\A s, t \in StopIds :
       (s # t /\ Stopping(t) /\ ~Stopping(s)) => ~Stopping(s)']_vars

\* batch b has left analyzeChangedFiles and is in its pattern refresh or its
\* drift evaluation
Evaluating(b) == batch[b].pc \in {"patterns", "drift"}

\* C13: Pattern refresh and drift evaluation of a batch observe a
\* batch-consistent snapshot: between the end of the commit phase of a batch
\* and the end of its drift evaluation no call of any batch writes the cache.
C13_NoCommitDuringEvaluation ==
  [][(\E b \in BatchIds : Evaluating(b)) => \A c \in BatchIds : ~CommitStep(c)]_vars

\* ================================================================== properties of the drift evaluator

\* the analysis without the components whose evaluation raises
WellFormed(a) ==
  [a EXCEPT !.components = SelectSeq(@, LAMBDA c : ~(c.success /\ c.name = NoName))]

C17_ScoreFormula ==
  scoredFiles > 0 =>
    LET filesWithViolations ==
          Cardinality({scoredViolations[i].filePath : i \in DOMAIN scoredViolations})
        stated == 100 - 5 * CountSeverity(scoredViolations, "error")
                      - 2 * CountSeverity(scoredViolations, "warning")
                      - MathRound(100 * filesWithViolations, scoredFiles)
    IN  score = IF stated < 0 THEN 0 ELSE IF stated > 100 THEN 100 ELSE stated

\* the step hands calculateComplianceScore one more error and leaves the
\* number of files, of warnings and of files with violations as they were
OneMoreError ==
  /\ scoredFiles' = scoredFiles
  /\ CountSeverity(scoredViolations', "error") = CountSeverity(scoredViolations, "error") + 1
  /\ CountSeverity(scoredViolations', "warning") = CountSeverity(scoredViolations, "warning")
  /\ {scoredViolations'[i].filePath : i \in DOMAIN scoredViolations'}
       = {scoredViolations[i].filePath : i \in DOMAIN scoredViolations}

\* C18: Score bounds and monotonicity.  For all inputs, an evaluation over
\* zero files included, 0 <= score <= 100, and one more error with the other
\* inputs fixed never increases the score.
C18_ScoreBoundsAndMonotonicity ==
  /\ [](0 <= score /\ score <= 100)
  /\ [][OneMoreError => score' <= score]_vars

\* a second violation, an error, was added to a file that already had one,
\* and the score is not at its floor
C18_Witness ==
  /\ Len(scoredViolations) = 2
  /\ scoredViolations[1].filePath = scoredViolations[2].filePath
  /\ scoredViolations[2].severity = "error"
  /\ score > 0
  /\ score < ScoreOf(scoredFiles, SubSeq(scoredViolations, 1, 1))

\* C19: Every violation returned by analyzeForDrift carries the severity that
\* the configuration table assigns to its rule type (warning when the type is
\* not configured).
C19_SeverityFromTable ==
  driftResult.status = "returned" =>
    \A i \in DOMAIN driftResult.violations :
      LET v == driftResult.violations[i]
      IN  v.severity = IF MapHas(rules, v.type) THEN rules[v.type] ELSE "warning"

\* the rule types the table switches off
OffTypes == {t \in DOMAIN rules : rules[t] = "off"}

\* C20: A rule type configured 'off' is suppressed entirely.  No violation of
\* that type is in the result of analyzeForDrift, and the compliance score
\* and the summary are those of the violations of the other types alone.
C20_OffIsSuppressed ==
  driftResult.status = "returned" =>
    LET kept == SelectSeq(DetectAll(analysis, rules, patterns), LAMBDA v : v.type \notin OffTypes)
    IN  /\ \A i \in DOMAIN driftResult.violations : driftResult.violations[i].type \notin OffTypes
        /\ driftResult.complianceScore = ScoreOf(TotalFiles(analysis), kept)
        /\ driftResult.summary = createSummary(kept)
        /\ DOMAIN driftResult.summary.byType \cap OffTypes = {}

\* an evaluation has returned whose detectors had found violations of a rule
\* type that is switched off, next to violations of other types
C20_Witness ==
  /\ driftResult.status = "returned"
  /\ \E i \in DOMAIN DetectAll(analysis, rules, patterns) :
       DetectAll(analysis, rules, patterns)[i].type \in OffTypes
  /\ driftResult.violations # <<>>

\* the violations of a type that the result holds for a file
ReturnedFor(type, filePath) ==
  SelectSeq(driftResult.violations, LAMBDA v : v.type = type /\ v.filePath = filePath)

\* C21: When SubmitButton is evaluated while Button is known (learned, with
\* usage count 23), the result holds a component-duplication violation for
\* SubmitButton, whether or not the file of Button is among the evaluated
\* files.
C21_SubmitButtonDuplicatesButton ==
  (/\ driftResult.status = "returned"
   /\ patterns
   /\ [name |-> "Button", usage |-> 23] \in LearnedPatterns.components
   /\ \E i \in DOMAIN analysis.components :
        analysis.components[i].success /\ analysis.components[i].name = "SubmitButton")
  => ReturnedFor("component-duplication", "SubmitButton.tsx") # <<>>

\* C22: For the stylesheet with the spacing values 8, 16, 24 and 7 and the
\* grid 8, exactly one spacing-violation is reported and it names 7 alone; in
\* general every value a spacing-violation names is a value of its file that
\* is not zero and not divisible by the grid in use.
C22_SpacingViolationNamesOffGrid ==
  driftResult.status = "returned" =>
    /\ \A i \in DOMAIN analysis.styles :
         (/\ analysis.styles[i].spacing = <<"8px", "16px", "24px", "7px">>
          /\ spacingGridOf(patterns) = 8
          /\ "spacing-violation" \notin OffTypes)
         => (/\ Len(ReturnedFor("spacing-violation", analysis.styles[i].filePath)) = 1
             /\ ReturnedFor("spacing-violation", analysis.styles[i].filePath)[1].message = <<"7px">>)
    /\ \A j \in DOMAIN driftResult.violations :
         LET v == driftResult.violations[j] IN
           v.type = "spacing-violation" =>
             \A k \in DOMAIN v.message :
               /\ \E i \in DOMAIN analysis.styles :
                    /\ analysis.styles[i].filePath = v.filePath
                    /\ v.message[k] \in Elements(analysis.styles[i].spacing)
               /\ parseSpacingValue(v.message[k]) \notin {Null, 0}
               /\ parseSpacingValue(v.message[k]) % spacingGridOf(patterns) # 0

\* the stylesheet with 8, 16, 24 and 7 was evaluated on the grid 8
C22_Witness ==
  /\ driftResult.status = "returned"
  /\ spacingGridOf(patterns) = 8
  /\ ReturnedFor("spacing-violation", "theme.css") # <<>>

\* ------------------------------------------------------------------ AnalysisStream claims
\* C23: the metrics history is a ring buffer of the last N samples, N being the
\* maxStreamHistory passed to the constructor or else 100: after k results
\* taken in while streaming it is the most recent min(k, N) samples in call order.
C23_MetricsRingBuffer ==
  /\ getMetricsHistory = LastN(processed, options.maxStreamHistory)
  /\ processed # <<>> =>
       options.maxStreamHistory \in (1..MaxHistoryOption) \cup {100}

\* the violations of the recent 'violation-detected' events, as <<event, violation>> positions
RecentViolations ==
  UNION {{<<i, k>> : k \in DOMAIN eventHistory[i].violations} :
           i \in {e \in DOMAIN eventHistory :
                     /\ eventHistory[e].type = "violation-detected"
                     /\ now - eventHistory[e].timestamp < RecentWindow}}
ViolationAt(pos) == eventHistory[pos[1]].violations[pos[2]]
RecentFiles == {ViolationAt(pos).filePath : pos \in RecentViolations}

\* C24: getViolationHotspots returns one entry per file with recent violations,
\* ordered by violation count descending and cut to the ten files with the most
\* violations; each entry counts its file's errors, warnings and infos, and the
\* three counts sum to its violationCount.
C24_HotspotsRankedAndCounted ==
  LET hotspots == getViolationHotspots(eventHistory, now)
      recent == RecentViolations
      files == {ViolationAt(pos).filePath : pos \in recent}
      of == [file \in files |-> {pos \in recent : ViolationAt(pos).filePath = file}]
      listed == {hotspots[i].filePath : i \in DOMAIN hotspots}
  IN  /\ \A i, j \in DOMAIN hotspots : hotspots[i].filePath = hotspots[j].filePath => i = j
      /\ listed \subseteq files
      /\ Len(hotspots) = IF Cardinality(files) < TopHotspots
                           THEN Cardinality(files) ELSE TopHotspots
      /\ \A i, j \in DOMAIN hotspots :
            i < j => hotspots[i].violationCount >= hotspots[j].violationCount
      /\ \A file \in files \ listed : \A i \in DOMAIN hotspots :
            hotspots[i].violationCount >= Cardinality(of[file])
      /\ \A i \in DOMAIN hotspots :
            LET h == hotspots[i]
                errors == {pos \in of[h.filePath] : ViolationAt(pos).severity = "error"}
                warnings == {pos \in of[h.filePath] : ViolationAt(pos).severity = "warning"}
            IN  /\ h.violationCount = Cardinality(of[h.filePath])
                /\ h.severityBreakdown.error = Cardinality(errors)
                /\ h.severityBreakdown.warning = Cardinality(warnings)
                /\ h.severityBreakdown.info =
                     Cardinality(of[h.filePath] \ (errors \cup warnings))
                /\ h.severityBreakdown.error + h.severityBreakdown.warning
                     + h.severityBreakdown.info = h.violationCount

\* more than ten files have recent violations, one event has aged out of the
\* window, and the file listed first has more violations than the one listed last
C24_Witness ==
  LET hotspots == getViolationHotspots(eventHistory, now)
  IN  /\ Cardinality(RecentFiles) > TopHotspots
      /\ Len(hotspots) = TopHotspots
      /\ hotspots[1].violationCount > hotspots[TopHotspots].violationCount
      /\ \E i \in DOMAIN eventHistory :
            /\ eventHistory[i].type = "violation-detected"
            /\ now - eventHistory[i].timestamp >= RecentWindow

\* a step in which a streaming stream takes in a result
ResultTaken ==
  /\ isStreaming
  /\ streamCalls' = streamCalls + 1
  /\ lastStreamCall'.method = "processAnalysisResult"

\* C25: after processAnalysisResult(result, d) on a streaming stream,
\* getCurrentMetrics reports the result's score, its number of violations, its
\* summary.errors and d as the analysis time, and a scoreChange equal to the new
\* score minus the score reported before the call, which is 100 on a fresh stream.
C25_CurrentMetricsOfResult ==
  /\ [](processed = <<>> => getCurrentMetrics.score = 100)
  /\ [][ResultTaken =>
          LET result == lastStreamCall'.input.result
              d == lastStreamCall'.input.duration
          IN  /\ getCurrentMetrics'.score = result.complianceScore
              /\ getCurrentMetrics'.violationCount = Len(result.violations)
              /\ getCurrentMetrics'.errorCount = result.summary.errors
              /\ getCurrentMetrics'.analysisTime = d
              /\ getCurrentMetrics'.scoreChange =
                   result.complianceScore - getCurrentMetrics.score]_vars

\* a second result was taken in, after one that had moved the score from 100
C25_Witness ==
  /\ lastStreamCall.method = "processAnalysisResult"
  /\ lastStreamCall.streaming
  /\ Len(processed) = 2
  /\ processed[1].scoreChange = processed[1].score - 100
  /\ processed[2].scoreChange = processed[2].score - processed[1].score
  /\ processed[2].scoreChange > 0
  /\ getCurrentMetrics = processed[2]

\* a step that is a call of the method
MethodCalled(method) ==
  /\ streamCalls' = streamCalls + 1
  /\ lastStreamCall'.method = method

\* what a call that does nothing leaves alone
StreamUntouched ==
  UNCHANGED <<options, isStreaming, updateTimer, eventCounter, eventHistory, metricsHistory,
              currentMetrics, listeners, emitted>>

EmittedMore(started, stopped) ==
  /\ emitted'["stream-started"] = emitted["stream-started"] + started
  /\ emitted'["stream-stopped"] = emitted["stream-stopped"] + stopped

\* C29: start() on a stopped stream emits 'stream-started' exactly once, stop()
\* on a started stream emits 'stream-stopped' exactly once, and start() while
\* streaming and stop() while stopped change nothing and emit nothing; this
\* holds as well when the 'stream-started' listener calls stop(), whose
\* 'stream-stopped' is then emitted once and leaves the stream stopped.
C29_StreamLifecycle ==
  [][/\ (MethodCalled("start") /\ ~isStreaming /\ listeners = "none")
          => (EmittedMore(1, 0) /\ isStreaming')
     /\ (MethodCalled("start") /\ ~isStreaming /\ listeners = "stop")
          => (EmittedMore(1, 1) /\ ~isStreaming')
     /\ (MethodCalled("stop") /\ isStreaming)
          => (EmittedMore(0, 1) /\ ~isStreaming')
     /\ (MethodCalled("start") /\ isStreaming) => StreamUntouched
     /\ (MethodCalled("stop") /\ ~isStreaming) => StreamUntouched]_vars

\* the listener stopped the stream inside start(), and a later stop() found it stopped
C29_Witness ==
  /\ listeners = "stop"
  /\ lastStreamCall.method = "stop"
  /\ ~lastStreamCall.streaming
  /\ emitted["stream-started"] = 1
  /\ emitted["stream-stopped"] = 1

\* ------------------------------------------------------------------ dependency graph claims
\* no analyzeChangedFiles call is in progress
BetweenOperations == call.pc \in {"idle", "done", "rejected"}

\* D is listed as a dependent of A
ListedDependent(A, D) == MapHas(dependencyGraph, A) /\ D \in dependencyGraph[A]
\* D has a cache entry whose declared dependencies contain A
DeclaredDependent(A, D) == MapHas(analysisCache, D) /\ A \in analysisCache[D].dependencies

LoadReturns == persistPc.op = "loadCache" /\ persistPc' = IdlePersist

\* C26: a loadCache of the document the last saveCache wrote, not older than
\* the freshness TTL, leaves exactly the file hashes, cache entries and
\* dependency graph that were saved, whatever the memory held before the load.
C26_SaveLoadRoundTrip ==
  [][(LoadReturns /\ SavedDocument /\ ~IsStale(cacheFile, clock))
       => Memory' = lastSaved.memory]_vars

\* a saved document with entries and edges was loaded over a memory that held
\* something else
C26_Witness ==
  /\ lastLoad.outcome = "loaded"
  /\ lastLoad.saved
  /\ lastLoad.replaced
  /\ Memory = lastSaved.memory
  /\ DOMAIN analysisCache # {}
  /\ DOMAIN dependencyGraph # {}

\* C27: a loadCache of a document older than the 24h freshness TTL leaves the
\* file hashes, the cache entries and the dependency graph empty, whatever
\* they held before the call.
C27_StaleLoadDiscards ==
  [][(LoadReturns /\ cacheFile.kind = "document" /\ IsStale(cacheFile, clock))
       => Memory' = EmptyMemory]_vars

\* ------------------------------------------------------------------ session claims
\* the step in which startWatching sets isWatching
StartCompletes == \E s \in StartIds : starts[s] = "cache" /\ starts'[s] = "done"

\* C28: right after startWatching() completes, also on a start that follows a
\* stop on the same watcher, changesDetected and violationsFound are 0 and the
\* session's start time is the time of this start.
C28_SessionResetOnStart ==
  [][StartCompletes =>
       /\ session'.changesDetected = 0
       /\ session'.violationsFound = 0
       /\ \E s \in StartIds : starts[s] = "cache" /\ session'.startTime = s]_vars

\* ================================================================== properties of overlapping calls

\* no analyzeChangedFiles call is in progress
Settled == \A k \in CallIds : inflight[k].pc \in {"idle", "done", "rejected"}

\* hash and result of the entry of p were taken from the same bytes
SelfConsistent(p) ==
  \E c \in Contents :
    Sha256(c) = analysisCache[p].hash /\ analysisCache[p].result = analyzeFile(p, c)

\* C31: Serialized cache mutation.  When no call is in progress, every path
\* that has a cache entry and a hash, both taken from one read of the file,
\* holds the hash and the result of the content that was read last for it by
\* any call: the final state does not depend on the order in which the
\* extractions of overlapping calls complete.
C31_FinalStateIndependentOfOrder ==
  Settled =>
    \A p \in ComponentPaths :
      (MapHas(analysisCache, p) /\ MapHas(fileHashes, p) /\ latestRead[p] # Absent
         /\ SelfConsistent(p)) =>
        /\ fileHashes[p].hash = Sha256(latestRead[p])
        /\ analysisCache[p].hash = Sha256(latestRead[p])
        /\ analysisCache[p].result = analyzeFile(p, latestRead[p])

\* ================================================================== properties of the cache and its hashes

\* C32: One valid entry per path.  Whenever the cache holds an entry for a
\* path, the entry is filed under its own path and the hash map holds a
\* FileHash for that path with the same hash, whatever calls of analysis (with
\* its invalidation and eviction), deletion, clearCache, loadCache and
\* validateCache came before.
C32_EntryHasItsHash ==
  \A p \in DOMAIN analysisCache :
    /\ p \in Paths
    /\ MapHas(fileHashes, p)
    /\ fileHashes[p].filePath = p
    /\ fileHashes[p].hash = analysisCache[p].hash

\* a document was loaded that holds the hash of an invalidated path next to a
\* cached entry
C32_Witness ==
  /\ lastLoad.outcome = "loaded"
  /\ persistPc = IdlePersist
  /\ analysisCache # EmptyMap
  /\ DOMAIN fileHashes # DOMAIN analysisCache

\* ================================================================== properties of the chain analyzer

\* the step is the cleanupCache of a call
CleanupStep == chain.pc = "loop" /\ chain'.pc = "idle"

\* C33: Eviction policy.  A cleanup of a cache whose total is within the
\* budget evicts nothing.  A cleanup of a cache over the budget leaves at most
\* 80% of the budget, every entry it evicts is no newer than every entry it
\* keeps, and each evicted entry was evicted while the usage (the entries at
\* least as new as it) was still above 80% of the budget.  Kept entries are
\* unchanged.
C33_EvictionPolicy ==
  [][CleanupStep =>
       LET before == chain.analysisCache
           after == chain'.analysisCache
           evicted == (DOMAIN before) \ DOMAIN after
           retained == DOMAIN after
           atLeastAsNew(e) == {q \in DOMAIN before : before[q].timestamp >= before[e].timestamp}
       IN  /\ retained \subseteq DOMAIN before
           /\ \A q \in retained :
                after[q].result = before[q].result /\ after[q].hash = before[q].hash
           /\ memoryUsage(before) <= MaxCacheSize => evicted = {}
           /\ memoryUsage(before) > MaxCacheSize =>
                /\ memoryUsage(after) * 10 <= MaxCacheSize * 8
                /\ \A e \in evicted, q \in retained : before[e].timestamp <= before[q].timestamp
                /\ \A e \in evicted : SumSizes(before, atLeastAsNew(e)) * 10 > MaxCacheSize * 8
  ]_vars

\* a cleanup has evicted two entries and kept a third
C33_Witness ==
  /\ chain.last.kind = "cleanup"
  /\ Cardinality(chain.last.dropped) = 2
  /\ chain.analysisCache # EmptyMap

\* the step commits the result of a changed file
ChainCommits == chain' # chain /\ chain'.last.kind = "commit"

\* the dependencies recorded for q: the keys under which q is a dependent
EdgesOf(graph, q) == {d \in DOMAIN graph : q \in graph[d]}

\* the direct dependents of f
DirectDependents(graph, f) == IF MapHas(graph, f) THEN graph[f] ELSE {}

\* C34: Single-hop invalidation.  A commit of path f removes the cache entries
\* of exactly the direct dependents of f; every other entry (a path that
\* reaches f only through a chain included) keeps its result and hash, and the
\* stored hashes and the edges of every path but f are unchanged.
C34_InvalidationIsSingleHop ==
  [][ChainCommits =>
       LET f == chain'.last.path
           direct == DirectDependents(chain.dependencyGraph, f)
       IN  /\ DOMAIN chain'.analysisCache = ((DOMAIN chain.analysisCache) \cup {f}) \ direct
           /\ \A q \in (DOMAIN chain'.analysisCache) \ {f} :
                /\ chain'.analysisCache[q].result = chain.analysisCache[q].result
                /\ chain'.analysisCache[q].hash = chain.analysisCache[q].hash
           /\ \A q \in ChainPaths \ {f} :
                /\ MapHas(chain'.fileHashes, q) = MapHas(chain.fileHashes, q)
                /\ MapHas(chain.fileHashes, q) => chain'.fileHashes[q] = chain.fileHashes[q]
                /\ EdgesOf(chain'.dependencyGraph, q) = EdgesOf(chain.dependencyGraph, q)
  ]_vars

\* the last commit dropped the entry of a direct dependent d and kept the
\* entry of x, which imports d and not the committed path
C34_Witness ==
  /\ chain.last.kind = "commit"
  /\ \E d \in chain.last.dropped, x \in DOMAIN chain.analysisCache :
       /\ d \in DirectDependents(chain.dependencyGraph, chain.last.path)
       /\ x \in DirectDependents(chain.dependencyGraph, d)
       /\ x \notin DirectDependents(chain.dependencyGraph, chain.last.path)
       /\ x # chain.last.path

\* ================================================================== properties of saveCache

\* C35: Write-then-replace.  No step taken while saveCache is in progress
\* leaves the cache file in another state than the one it had before the step
\* or the complete document this saveCache writes: an interruption after any
\* step finds the previous file or the new document.
C35_WriteThenReplace ==
  [][persistPc.op = "saveCache" =>
       \/ cacheFile' = cacheFile
       \/ cacheFile'.kind = "document" /\ cacheFile' \in {persistPc.data, persistPc'.data}
  ]_vars

\* ================================================================== properties of the learned spacing grid

\* C36: Spacing unit.  The learned unit is the greatest common divisor of the
\* observed positive spacing values snapped to {4, 8, 16}: a gcd of 8 gives
\* the unit 8 and a gcd of 16 the unit 16.  Without spacing data the
\* confidence is 0, otherwise it is the rounded percentage of the observed
\* values that the unit divides.
C36_UnitIsSnappedGcd ==
  LET allSpacing == allSpacingOf(extracted.spacing)
      g == findGCD(allSpacing)
      unit == extracted.grid.unit
      fitting == Cardinality({i \in DOMAIN allSpacing : allSpacing[i] % unit = 0})
  IN  /\ allSpacing = <<>> => extracted.grid.confidence = 0
      /\ allSpacing # <<>> =>
           /\ g = 8 => unit = 8
           /\ g = 16 => unit = 16
           /\ extracted.grid.confidence = MathRound(fitting * 100, Len(allSpacing))


\* ================================================================== properties of the watcher's patterns, starts and score

\* invocation b runs performDriftAnalysis in this step
EvaluationRuns(b) == batch[b].pc \in {"analyze", "patterns"} /\ batch'[b].pc = "drift"

\* C37: The evaluator uses the most recently learned profile.  At every
\* evaluation the patterns held by the DriftAnalyzer equal this.patterns of
\* the watcher, also when the batch overlaps another batch's pattern update
\* and when an earlier pattern update failed to save.
C37_EvaluatorHasCurrentPatterns ==
  [][\A b \in BatchIds : EvaluationRuns(b) => analyzerPatterns' = thisPatterns']_vars

\* the chokidar watchers that are open: the leaked ones and the one
\* this.watcher holds
LiveWatchers == leakedWatchers + (IF watcher = "none" THEN 0 ELSE 1)

\* C38: At most one file-system watcher is active per FileWatcher at any
\* time: a startWatching issued while another one is in progress creates no
\* second watcher.
C38_AtMostOneWatcher == LiveWatchers <= 1

\* C39: After every batch in which the drift evaluation ran, the session's
\* complianceScore is the score that evaluation returned, so it rises again
\* after a batch without violations.
C39_SessionScoreIsLatestScore ==
  [][\A b \in BatchIds :
       EvaluationRuns(b) => session'.complianceScore = batch'[b].score]_vars

\* ================================================================== properties of the hotspot trend

\* the recent violations of a file
RecentOf(file) == {pos \in RecentViolations : ViolationAt(pos).filePath = file}

====
